---- MODULE Spec2Model ----
(***************************************************************************)
(* Model of the PDF chapter extractor of KitapAi                           *)
(* (src/pdf_mindmap_generator.py, class PDFChapterExtractor).              *)
(*                                                                         *)
(* Text is a sequence of Unicode code points, so that len(), str.strip(),  *)
(* str.split(), str.lower() and the regular expressions of clean_text are  *)
(* computed character by character as Python computes them.  A font size   *)
(* is an integer number of hundredths of a point; round(size, 1) yields an *)
(* integer number of tenths.                                               *)
(***************************************************************************)
EXTENDS Integers, Sequences, FiniteSets, TLC

(***************************************************************************)
(* Characters.                                                             *)
(***************************************************************************)
NL == 10
HASH == 35
COMMA == 44
DOT == 46
COLON == 58
SEMI == 59
LBRACK == 91
RBRACK == 93
COPYSIGN == 169

\* str.isspace(): the characters str.strip() removes and \s matches
Spaces == (9..13) \cup (28..32) \cup {133, 160}
IsSpace(c) == c \in Spaces
\* \d and str(i) for i in range(10), on the characters the model draws
Digits == 48..57
IsDigit(c) == c \in Digits
\* [a-z]
AsciiLowers == 97..122
\* "\n"
Newlines == {NL}
\* str.isupper() of one character: Latin A-Z, Cyrillic U+0410..U+042F, U+0401
IsUpper(c) == c \in ((65..90) \cup (1040..1071) \cup {1025})
\* str.lower() of one character
LowerChar(c) ==
    IF c \in 65..90 THEN c + 32
    ELSE IF c \in 1040..1071 THEN c + 32
    ELSE IF c = 1025 THEN 1105
    ELSE c

\* the least index k >= from with (s[k] \in class) = want; Len(s) + 1 when
\* there is none
FirstIdx(s, from, class, want) ==
    IF \E k \in from..Len(s) : (s[k] \in class) = want
    THEN CHOOSE k \in from..Len(s) :
             /\ (s[k] \in class) = want
             /\ \A m \in from..(k - 1) : (s[m] \in class) # want
    ELSE Len(s) + 1

\* the greatest index k in from..to with (s[k] \in class) = want; 0 when
\* there is none
LastIdx(s, from, to, class, want) ==
    IF from <= to /\ (s[to] \in class) = want THEN to
    ELSE IF \E k \in from..to : (s[k] \in class) = want
    THEN CHOOSE k \in from..to :
             /\ (s[k] \in class) = want
             /\ \A m \in (k + 1)..to : (s[m] \in class) # want
    ELSE 0

\* the characters that occur in s
CharSet(s) == {s[i] : i \in 1..Len(s)}

\* c * n
Rep(c, n) == [i \in 1..n |-> c]

\* str.lower()
Lower(s) == [i \in 1..Len(s) |-> LowerChar(s[i])]

\* str.strip()
Strip(s) ==
    LET first == FirstIdx(s, 1, Spaces, FALSE)
    IN  IF first > Len(s) THEN <<>>
        ELSE SubSeq(s, first, LastIdx(s, first, Len(s), Spaces, FALSE))

\* s.startswith(p) at offset i (1-based): s[i .. i+len(p)-1] = p
HasAt(s, i, p) ==
    /\ i >= 1
    /\ i + Len(p) - 1 <= Len(s)
    /\ \A k \in 1..Len(p) : s[i + k - 1] = p[k]

\* p in s
Contains(s, p) == \E i \in 1..(Len(s) - Len(p) + 1) : HasAt(s, i, p)

\* sep.join(parts) for a one-character separator
RECURSIVE Join(_, _)
Join(parts, sep) ==
    IF Len(parts) = 0 THEN <<>>
    ELSE IF Len(parts) = 1 THEN parts[1]
    ELSE parts[1] \o <<sep>> \o Join(Tail(parts), sep)

\* s.split('\n') from index pos on: always at least one piece
RECURSIVE SplitFrom(_, _)
SplitFrom(s, pos) ==
    LET i == FirstIdx(s, pos, Newlines, TRUE)
    IN  IF i > Len(s) THEN <<SubSeq(s, pos, Len(s))>>
        ELSE <<SubSeq(s, pos, i - 1)>> \o SplitFrom(s, i + 1)

SplitLines(s) == SplitFrom(s, 1)

\* len(s.split()): the number of maximal runs of non-whitespace characters
WordCount(s) ==
    Cardinality({i \in 1..Len(s) :
                    /\ ~IsSpace(s[i])
                    /\ (i = 1 \/ IsSpace(s[i - 1]))})

(***************************************************************************)
(* Regular expressions of clean_text.  MatchEnd maps a pattern, a text and *)
(* a start index to the index just after the match the regex engine finds  *)
(* there (0: no match at that index).                                      *)
(***************************************************************************)

\* number of consecutive characters of class from index j on
RunLen(s, j, class) == FirstIdx(s, j, class, FALSE) - j

\* what follows .*? in a technical pattern: a literal, then between lo and
\* hi characters of a class, as many as there are (hi = 0: no upper limit)
SufDigits4 == [lit |-> <<>>, class |-> Digits, lo |-> 4, hi |-> 4]        \* \d{4}
SufDigits == [lit |-> <<>>, class |-> Digits, lo |-> 1, hi |-> 0]         \* \d+
SufNewline == [lit |-> <<NL>>, class |-> {}, lo |-> 0, hi |-> 0]          \* \n
SufBracket == [lit |-> <<RBRACK>>, class |-> {}, lo |-> 0, hi |-> 0]      \* \]
SufDomain == [lit |-> <<DOT>>, class |-> AsciiLowers, lo |-> 2, hi |-> 4] \* \.[a-z]{2,4}

\* the length of the match of suffix at j (0: none)
SufLen(suffix, s, j) ==
    IF HasAt(s, j, suffix.lit)
    THEN LET n == RunLen(s, j + Len(suffix.lit), suffix.class)
         IN  IF n < suffix.lo THEN 0
             ELSE Len(suffix.lit) + (IF suffix.hi > 0 /\ n > suffix.hi THEN suffix.hi ELSE n)
    ELSE 0

\* prefix .*? suffix : the literal prefix at i, then the fewest characters
\* other than newline such that the suffix matches
LazyEnd(s, i, prefix, suffix) ==
    IF ~HasAt(s, i, prefix) THEN 0
    ELSE LET from == i + Len(prefix)
             nl == FirstIdx(s, from, Newlines, TRUE)
             limit == IF nl > Len(s) THEN Len(s) ELSE nl
         IN  IF \E j \in from..limit : SufLen(suffix, s, j) > 0
             THEN LET j == CHOOSE j \in from..limit :
                               /\ SufLen(suffix, s, j) > 0
                               /\ \A m \in from..(j - 1) : SufLen(suffix, s, m) = 0
                  IN  j + SufLen(suffix, s, j)
             ELSE 0

\* literal prefixes of the technical patterns
LitCopy == <<COPYSIGN>>                                      \* (c) sign
LitISBN == <<73, 83, 66, 78>>                                \* "ISBN"
LitPublisher ==                                              \* "Издательство"
    <<1048, 1079, 1076, 1072, 1090, 1077, 1083, 1100, 1089, 1090, 1074, 1086>>
LitWww == <<119, 119, 119, 46>>                              \* "www."
LitBracket == <<LBRACK>>                                     \* "["
LitParenC == <<40, 99, 41>>                                  \* "(c)"
LitRights ==                                                 \* "Все права защищены"
    <<1042, 1089, 1077, 32, 1087, 1088, 1072, 1074, 1072, 32,
      1079, 1072, 1097, 1080, 1097, 1077, 1085, 1099>>
LitSigned ==                                                 \* "Подписано в печать"
    <<1055, 1086, 1076, 1087, 1080, 1089, 1072, 1085, 1086, 32, 1074, 32,
      1087, 1077, 1095, 1072, 1090, 1100>>
LitFormat == <<1060, 1086, 1088, 1084, 1072, 1090>>          \* "Формат"
LitPrintRun == <<1058, 1080, 1088, 1072, 1078>>              \* "Тираж"

Lazy(prefix, suffix) == [kind |-> "lazy", prefix |-> prefix, suffix |-> suffix]

\* self.technical_patterns, in list order
technical_patterns == <<
    Lazy(LitCopy, SufDigits4),       \* (c)-sign .*?\d{4}
    Lazy(LitISBN, SufDigits),        \* ISBN.*?\d+
    Lazy(LitPublisher, SufNewline),  \* Издательство.*?\n
    Lazy(LitWww, SufDomain),         \* www\..*?\.[a-z]{2,4}
    Lazy(LitBracket, SufBracket),    \* \[.*?\]
    Lazy(LitParenC, SufDigits4),     \* \(c\).*?\d{4}
    Lazy(LitRights, SufNewline),     \* Все права защищены.*?\n
    Lazy(LitSigned, SufNewline),     \* Подписано в печать.*?\n
    Lazy(LitFormat, SufNewline),     \* Формат.*?\n
    Lazy(LitPrintRun, SufNewline)    \* Тираж.*?\n
>>

\* r'\n\s*\n' and r'\n\s*\d+\s*\n'
PatBlankLines == [kind |-> "blank lines", prefix |-> <<NL>>]
PatPageNumber == [kind |-> "page number", prefix |-> <<NL>>]

\* the last newline of the whitespace run that starts at index j (0: none)
LastNewlineInRun(s, j) ==
    LastIdx(s, j, j + RunLen(s, j, Spaces) - 1, Newlines, TRUE)

\* \n\s*\n : \s* is greedy and matches newlines, so the match runs to the
\* last newline of the whitespace run
BlankEnd(s, i) ==
    IF i <= Len(s) /\ s[i] = NL
    THEN LET last == LastNewlineInRun(s, i + 1)
         IN  IF last = 0 THEN 0 ELSE last + 1
    ELSE 0

\* \n\s*\d+\s*\n
PageNumEnd(s, i) ==
    IF i <= Len(s) /\ s[i] = NL
    THEN LET d == i + 1 + RunLen(s, i + 1, Spaces)
             n == RunLen(s, d, Digits)
             last == LastNewlineInRun(s, d + n)
         IN  IF n = 0 \/ last = 0 THEN 0 ELSE last + 1
    ELSE 0

MatchEnd(pattern, s, i) ==
    CASE pattern.kind = "lazy" -> LazyEnd(s, i, pattern.prefix, pattern.suffix)
      [] pattern.kind = "blank lines" -> BlankEnd(s, i)
      [] pattern.kind = "page number" -> PageNumEnd(s, i)

\* re.sub(pattern, repl, s) from index pos on: leftmost match first, the
\* search resuming where the match ended
RECURSIVE SubFrom(_, _, _, _)
SubFrom(s, pos, pattern, repl) ==
    IF \E i \in pos..Len(s) : MatchEnd(pattern, s, i) > 0
    THEN LET i == CHOOSE i \in pos..Len(s) :
                      /\ MatchEnd(pattern, s, i) > 0
                      /\ \A m \in pos..(i - 1) : MatchEnd(pattern, s, m) = 0
         IN  SubSeq(s, pos, i - 1) \o repl
                 \o SubFrom(s, MatchEnd(pattern, s, i), pattern, repl)
    ELSE SubSeq(s, pos, Len(s))

\* re.sub(pattern, repl, s): every pattern begins with a literal, and no
\* match begins where the first character of the literal does not occur
Sub(s, pattern, repl) ==
    IF \E i \in 1..Len(s) : s[i] = pattern.prefix[1]
    THEN SubFrom(s, 1, pattern, repl)
    ELSE s

\* for pattern in self.technical_patterns: text = re.sub(pattern, '', text)
StripTechnical(s) ==
    CHOOSE out \in
        {Sub(t9, technical_patterns[10], <<>>) : t9 \in
        {Sub(t8, technical_patterns[9], <<>>) : t8 \in
        {Sub(t7, technical_patterns[8], <<>>) : t7 \in
        {Sub(t6, technical_patterns[7], <<>>) : t6 \in
        {Sub(t5, technical_patterns[6], <<>>) : t5 \in
        {Sub(t4, technical_patterns[5], <<>>) : t4 \in
        {Sub(t3, technical_patterns[4], <<>>) : t3 \in
        {Sub(t2, technical_patterns[3], <<>>) : t2 \in
        {Sub(t1, technical_patterns[2], <<>>) : t1 \in
        {Sub(t0, technical_patterns[1], <<>>) : t0 \in {s}}}}}}}}}}} : TRUE

(***************************************************************************)
(* clean_text                                                              *)
(***************************************************************************)

\* self.skip_sections
skip_sections == <<
    <<1087, 1088, 1077, 1076, 1080, 1089, 1083, 1086, 1074, 1080, 1077>>,  \* "предисловие"
    <<1073, 1083, 1072, 1075, 1086, 1076, 1072, 1088, 1085, 1086, 1089, 1090, 1080>>, \* "благодарности"
    <<1086, 1073, 32, 1072, 1074, 1090, 1086, 1088, 1077>>,                \* "об авторе"
    <<1089, 1086, 1076, 1077, 1088, 1078, 1072, 1085, 1080, 1077>>,        \* "содержание"
    <<1086, 1075, 1083, 1072, 1074, 1083, 1077, 1085, 1080, 1077>>,        \* "оглавление"
    <<1089, 1087, 1080, 1089, 1086, 1082, 32, 1083, 1080, 1090, 1077, 1088, 1072,
      1090, 1091, 1088, 1099>>,                                            \* "список литературы"
    <<1087, 1088, 1080, 1083, 1086, 1078, 1077, 1085, 1080, 1077>>,        \* "приложение"
    <<1087, 1088, 1080, 1084, 1077, 1095, 1072, 1085, 1080, 1103>>,        \* "примечания"
    <<99, 111, 112, 121, 114, 105, 103, 104, 116>>,                        \* "copyright"
    <<1074, 1099, 1093, 1086, 1076, 1085, 1099, 1077, 32, 1076, 1072, 1085, 1085,
      1099, 1077>>,                                                        \* "выходные данные"
    <<105, 115, 98, 110>>                                                  \* "isbn"
>>

\* any(section in line_lower for section in self.skip_sections)
\* (a section none of whose characters is missing from the line is searched
\* for; any other cannot occur in it)
IsSkipLine(line) ==
    LET lcs == {LowerChar(c) : c \in CharSet(line)}
        cand == {k \in 1..Len(skip_sections) : CharSet(skip_sections[k]) \subseteq lcs}
    IN  /\ cand # {}
        /\ LET line_lower == Strip(Lower(line))
           IN  \E k \in cand : Contains(line_lower, skip_sections[k])

\* SkipScan that drops the line that ends skip mode
RECURSIVE SkipScanDropResume(_, _)
SkipScanDropResume(lines, skip_mode) ==
    IF Len(lines) = 0 THEN <<>>
    ELSE LET line == Head(lines)
             stripped == Strip(line)
         IN  IF IsSkipLine(line) THEN SkipScanDropResume(Tail(lines), TRUE)
             ELSE IF skip_mode
                  THEN SkipScanDropResume(Tail(lines),
                           ~(Len(stripped) = 0 \/ stripped[1] = HASH))
                  ELSE <<line>> \o SkipScanDropResume(Tail(lines), FALSE)

\* the line loop of clean_text: the lines kept, given skip_mode on entry
RECURSIVE SkipScan(_, _)
SkipScan(lines, skip_mode) ==
    IF Len(lines) = 0 THEN <<>>
    ELSE LET line == Head(lines)
             stripped == Strip(line)
         IN  IF IsSkipLine(line) THEN SkipScan(Tail(lines), TRUE)
             ELSE LET mode == IF skip_mode /\ (Len(stripped) = 0 \/ stripped[1] = HASH)
                              THEN FALSE ELSE skip_mode
                  IN  IF ~mode THEN <<line>> \o SkipScan(Tail(lines), mode)
                      ELSE SkipScan(Tail(lines), mode)

\* lines = text.split('\n'); the line loop; text = '\n'.join(cleaned_lines)
SkipSections(text) == Join(SkipScan(SplitLines(text), FALSE), NL)
\* clean_text without the step that collapses blank lines
CollapseBlankLinesSkipped(text) == text

\* text = re.sub(r'\n\s*\n', '\n\n', text)
CollapseBlankLines(text) == Sub(text, PatBlankLines, <<NL, NL>>)
\* text = re.sub(r'\n\s*\d+\s*\n', '\n', text)
RemovePageNumbers(text) == Sub(text, PatPageNumber, <<NL>>)

\* each step on the result of the step before, the last being strip()
clean_text(text) ==
    CHOOSE out \in
        {Strip(t4) : t4 \in
        {RemovePageNumbers(t3) : t3 \in
        {CollapseBlankLines(t2) : t2 \in
        {StripTechnical(t1) : t1 \in
        {SkipSections(t0) : t0 \in {text}}}}}} : TRUE

(***************************************************************************)
(* Documents.  A document is the sequence, in reading order (pages, then   *)
(* blocks, lines and spans), of its blocks without "lines" (images) and of *)
(* its text spans.                                                         *)
(***************************************************************************)
Span(text, size) == [kind |-> "span", text |-> text, size |-> size]
ImageBlock == [kind |-> "image", text |-> <<>>, size |-> 0]

\* Round1 that cuts the second decimal off instead of rounding
Round1Truncate(size) == size \div 10

\* round(span["size"], 1): hundredths of a point to tenths (the sizes drawn
\* below are never half-way between two tenths)
Round1(size) == (size + 5) \div 10

\* span["text"].strip()
SpanText(item) == Strip(item.text)

(***************************************************************************)
(* analyze_document_structure                                              *)
(***************************************************************************)

\* the spans the histogram counts: "if text:" after strip()
Counted(d) == {i \in 1..Len(d) : d[i].kind = "span" /\ Len(SpanText(d[i])) > 0}

\* font_stats[size], for the sizes that are keys of font_stats
FontSizes(d) == {Round1(d[i].size) : i \in Counted(d)}
\* font_stats with "font_stats[font_size] += len(text)": characters counted
\* instead of spans
font_stats_by_chars(d) ==
    [size \in FontSizes(d) |->
        Cardinality({ik \in UNION {{<<i, k>> : k \in 1..Len(SpanText(d[i]))} :
                                      i \in Counted(d)} :
                        Round1(d[ik[1]].size) = size})]

font_stats(d) ==
    [size \in FontSizes(d) |->
        Cardinality({i \in Counted(d) : Round1(d[i].size) = size})]

\* position of a size in the insertion order of the dict font_stats
FirstSeen(d, size) ==
    CHOOSE i \in Counted(d) :
        /\ Round1(d[i].size) = size
        /\ \A j \in Counted(d) : Round1(d[j].size) = size => i <= j

\* max(font_stats.items(), key=lambda x: x[1])[0]: the first key, in
\* insertion order, whose count is maximal
main_font_size(d) ==
    LET stats == font_stats(d)
    IN  CHOOSE size \in DOMAIN stats :
            /\ \A other \in DOMAIN stats : stats[other] <= stats[size]
            /\ \A other \in DOMAIN stats :
                  stats[other] = stats[size] => FirstSeen(d, size) <= FirstSeen(d, other)

\* IsHeaderSize with <= for < : a size with exactly half the count of the
\* main size is a header size
IsHeaderSizeAtMostHalf(stats, main, size) ==
    size > main /\ 2 * stats[size] <= stats[main]

\* size > main_font_size and font_stats[size] < font_stats[main_font_size] * 0.5
IsHeaderSize(stats, main, size) == size > main /\ 2 * stats[size] < stats[main]

\* sorted(S) for a set of numbers
RECURSIVE Sorted(_)
Sorted(S) ==
    IF S = {} THEN <<>>
    ELSE LET least == CHOOSE x \in S : \A y \in S : x <= y
         IN  <<least>> \o Sorted(S \ {least})

header_font_sizes(d) ==
    LET stats == font_stats(d)
        main == main_font_size(d)
    IN  Sorted({size \in DOMAIN stats : IsHeaderSize(stats, main, size)})

\* the returned dict (font_samples is diagnostic only)
analyze_document_structure(d) ==
    [main_font_size |-> main_font_size(d),
     header_font_sizes |-> header_font_sizes(d)]

\* doc_structure before analyze_document_structure has returned
NoStructure == [main_font_size |-> 0, header_font_sizes |-> <<>>]

(***************************************************************************)
(* is_potential_header                                                     *)
(***************************************************************************)
Elems(seq) == {seq[i] : i \in 1..Len(seq)}

\* any(punct in t for punct in ',:;')
HasClausePunct(t) == \E i \in 1..Len(t) : t[i] \in {COMMA, COLON, SEMI}

\* the number of header_indicators that hold of t (t is not empty)
IndicatorCount(t) ==
      (IF IsUpper(t[1]) THEN 1 ELSE 0)
    + (IF \E i \in 1..Len(t) : IsDigit(t[i]) THEN 1 ELSE 0)
    + (IF t[Len(t)] # DOT THEN 1 ELSE 0)
    + (IF WordCount(t) <= 15 THEN 1 ELSE 0)
    + (IF ~HasClausePunct(t) THEN 1 ELSE 0)

\* is_potential_header without the test of the font size
is_potential_header_any_size(text, font_size, doc_structure) ==
    \E t \in {Strip(text)} :
        /\ Len(t) > 0
        /\ WordCount(t) <= 20
        /\ IndicatorCount(t) >= 3

\* is_potential_header asking for all five indicators
is_potential_header_unanimous(text, font_size, doc_structure) ==
    /\ font_size \in Elems(doc_structure.header_font_sizes)
    /\ \E t \in {Strip(text)} :
          /\ Len(t) > 0
          /\ WordCount(t) <= 20
          /\ IndicatorCount(t) >= 5

\* is_potential_header without the limit of 20 words
is_potential_header_any_length(text, font_size, doc_structure) ==
    /\ font_size \in Elems(doc_structure.header_font_sizes)
    /\ \E t \in {Strip(text)} :
          /\ Len(t) > 0
          /\ IndicatorCount(t) >= 3

\* is_potential_header asking for more than three indicators
is_potential_header_four(text, font_size, doc_structure) ==
    /\ font_size \in Elems(doc_structure.header_font_sizes)
    /\ \E t \in {Strip(text)} :
          /\ Len(t) > 0
          /\ WordCount(t) <= 20
          /\ IndicatorCount(t) >= 4

is_potential_header(text, font_size, doc_structure) ==
    /\ font_size \in Elems(doc_structure.header_font_sizes)
    /\ \E t \in {Strip(text)} :
          /\ Len(t) > 0
          /\ WordCount(t) <= 20
          /\ IndicatorCount(t) >= 3

(***************************************************************************)
(* extract_chapters                                                        *)
(*                                                                         *)
(* Every text the walk keeps carries the index of the span it was read     *)
(* from (fields pos, src, from).  The program keeps the text alone; the    *)
(* indices are history that the properties below read, and no action       *)
(* reads them.                                                             *)
(***************************************************************************)
VARIABLES
    readable,         \* whether fitz.open(pdf_path) can parse the file
    doc,              \* the content of the file at pdf_path
    pc,               \* "open", "analyze", "walk", "done" or "raised"
    handle,           \* "none" or "open": the fitz document of this call
    doc_structure,    \* result of analyze_document_structure
    pos,              \* index in doc of the next block or span of the walk
    chapters,         \* the list returned
    current_chapter,  \* texts accumulated for the open chapter
    current_title,    \* title of the open chapter, or None
    header_log,       \* indices of the spans is_potential_header accepted
    texts,            \* a text, then clean_text of it, then clean_text of that
    stages,           \* the text after each step of the last call of clean_text
    call,             \* generate_mindmap: the text, the number of chunks it is
                      \* split into, and what the API answers to each request
    attempt,          \* generate_mindmap: attempts that ended in a rate limit
    retry_delay,      \* generate_mindmap: seconds to sleep before a request
    slept,            \* the seconds slept before each request made so far
    all_results,      \* generate_mindmap: the results of the chunks
    cache,            \* the cache directory: text |-> entry
    result,           \* what generate_mindmap returned
    index,            \* the number i of the chapter a loop over chapters is at
    files,            \* the files of the chapters directory
    mindmaps,         \* the files of the mind maps directory
    attached          \* the mind map files the application has read, by chapter

vars == <<readable, doc, pc, handle, doc_structure, pos, chapters,
          current_chapter, current_title, header_log, texts, stages,
          call, attempt, retry_delay, slept, all_results, cache, result,
          index, files, mindmaps, attached>>

\* the variables of extract_chapters but pc, of clean_text, of generate_mindmap,
\* of the loops that write and process the chapter files
extractor_vars == <<readable, doc, handle, doc_structure, pos, chapters,
                    current_chapter, current_title, header_log>>
cleaner_vars == <<texts, stages>>
generator_vars == <<call, attempt, retry_delay, slept, all_results, cache, result>>
pipeline_vars == <<index, files, mindmaps, attached>>

\* no call of clean_text, of generate_mindmap, no directory
CleanerIdle == texts = <<>> /\ stages = <<>>
PipelineIdle == index = 0 /\ files = {} /\ mindmaps = {} /\ attached = <<>>
GeneratorIdle ==
    /\ call = [text |-> <<>>, chunks |-> 0, responses |-> <<>>]
    /\ attempt = 0
    /\ retry_delay = 0
    /\ slept = <<>>
    /\ all_results = <<>>
    /\ cache = <<>>
    /\ result = <<>>

min_chapter_length == 1000

\* None; "if current_title" is false of None and of the empty string
None == [text |-> <<>>, pos |-> 0]
Truthy(title) == Len(title.text) > 0

Texts(acc) == [i \in 1..Len(acc) |-> acc[i].text]
Positions(acc) == [i \in 1..Len(acc) |-> acc[i].pos]

\* (current_title, chapter_text)
Chapter(title, chapter_text, acc) ==
    [title |-> title.text, body |-> chapter_text,
     src |-> title.pos, from |-> Positions(acc)]

\* CloseOnHeader with the threshold compared by >= : keeps a chapter of
\* exactly min_chapter_length characters
CloseOnHeaderAtLeast(chs, title, acc) ==
    IF Truthy(title) /\ Len(acc) > 0
    THEN LET chapter_text == clean_text(Join(Texts(acc), NL))
         IN  IF Len(chapter_text) >= min_chapter_length
             THEN Append(chs, Chapter(title, chapter_text, acc))
             ELSE chs
    ELSE chs

\* CloseOnHeader without the test of the length: the open chapter is
\* appended whatever clean_text leaves of it
CloseOnHeaderAlways(chs, title, acc) ==
    IF Truthy(title) /\ Len(acc) > 0
    THEN Append(chs, Chapter(title, clean_text(Join(Texts(acc), NL)), acc))
    ELSE chs

\* chapters after the block "if current_title and current_chapter:" that a
\* header span runs
CloseOnHeader(chs, title, acc) ==
    IF Truthy(title) /\ Len(acc) > 0
    THEN LET chapter_text == clean_text(Join(Texts(acc), NL))
         IN  IF Len(chapter_text) > min_chapter_length
             THEN Append(chs, Chapter(title, chapter_text, acc))
             ELSE chs
    ELSE chs

\* ResetOnHeader without "current_chapter = []"
ResetOnHeaderNever(title, acc) == acc

\* ResetOnHeader with "current_chapter = []" under the length test: only a
\* chapter that is kept empties the accumulator
ResetOnHeaderWhenKept(title, acc) ==
    IF /\ Truthy(title) /\ Len(acc) > 0
       /\ Len(clean_text(Join(Texts(acc), NL))) > min_chapter_length
    THEN <<>>
    ELSE acc

\* current_chapter after that block: "current_chapter = []" is inside the if
ResetOnHeader(title, acc) ==
    IF Truthy(title) /\ Len(acc) > 0 THEN <<>> ELSE acc

\* NewTitle with "if not current_title: current_title = text": the first
\* title stays
NewTitleKeepFirst(title, text, i) ==
    IF Truthy(title) THEN title ELSE [text |-> text, pos |-> i]

\* NewTitle with current_title = self.clean_text(text)
NewTitleCleaned(title, text, i) == [text |-> clean_text(text), pos |-> i]

\* current_title = text
NewTitle(title, text, i) == [text |-> text, pos |-> i]

\* Accumulate without the test of current_title
AccumulateAlways(title, acc, text, i) == Append(acc, [text |-> text, pos |-> i])

\* Accumulate under "if current_title and text": a span with no text is
\* not appended
AccumulateNonEmpty(title, acc, text, i) ==
    IF Truthy(title) /\ Len(text) > 0
    THEN Append(acc, [text |-> text, pos |-> i])
    ELSE acc

\* "if current_title: current_chapter.append(text)" of a non-header span
Accumulate(title, acc, text, i) ==
    IF Truthy(title) THEN Append(acc, [text |-> text, pos |-> i]) ELSE acc

\* CloseAtEnd with chapters.insert(0, ...) for chapters.append(...)
CloseAtEndPrepend(chs, title, acc) ==
    IF Truthy(title) /\ Len(acc) > 0
    THEN LET chapter_text == clean_text(Join(Texts(acc), NL))
         IN  IF Len(chapter_text) > min_chapter_length
             THEN <<Chapter(title, chapter_text, acc)>> \o chs
             ELSE chs
    ELSE chs

\* CloseAtEnd without the block that follows the loops
CloseAtEndForgotten(chs, title, acc) == chs

\* chapters after the block that follows the loops
CloseAtEnd(chs, title, acc) ==
    IF Truthy(title) /\ Len(acc) > 0
    THEN LET chapter_text == clean_text(Join(Texts(acc), NL))
         IN  IF Len(chapter_text) > min_chapter_length
             THEN Append(chs, Chapter(title, chapter_text, acc))
             ELSE chs
    ELSE chs

\* Open inside "try: ... except Exception: return []": a file that cannot
\* be parsed ends the call with the empty list
OpenSwallow ==
    /\ pc = "open"
    /\ IF readable
       THEN pc' = "analyze" /\ handle' = "open"
       ELSE pc' = "done" /\ handle' = handle
    /\ UNCHANGED <<pipeline_vars, generator_vars, texts, stages, readable, doc, doc_structure, pos, chapters,
                   current_chapter, current_title, header_log>>

\* doc = fitz.open(pdf_path): raises on a file it cannot parse
Open ==
    /\ pc = "open"
    /\ IF readable
       THEN pc' = "analyze" /\ handle' = "open"
       ELSE pc' = "raised" /\ handle' = handle
    /\ UNCHANGED <<pipeline_vars, generator_vars, texts, stages, readable, doc, doc_structure, pos, chapters,
                   current_chapter, current_title, header_log>>

\* Analyze with max(..., default=(0, 0)): an empty font_stats yields a
\* profile whose main_font_size is 0
AnalyzeSentinel ==
    /\ pc = "analyze"
    /\ doc_structure' = IF Counted(doc) = {} THEN NoStructure
                        ELSE analyze_document_structure(doc)
    /\ pos' = 1
    /\ pc' = "walk"
    /\ UNCHANGED <<pipeline_vars, generator_vars, texts, stages, readable, doc, handle, chapters, current_chapter,
                   current_title, header_log>>

\* doc_structure = self.analyze_document_structure(doc): max() of an empty
\* font_stats raises ValueError, which extract_chapters does not catch
Analyze ==
    /\ pc = "analyze"
    /\ IF Counted(doc) = {}
       THEN pc' = "raised" /\ UNCHANGED <<doc_structure, pos>>
       ELSE /\ doc_structure' = analyze_document_structure(doc)
            /\ pos' = 1
            /\ pc' = "walk"
    /\ UNCHANGED <<pipeline_vars, generator_vars, texts, stages, readable, doc, handle, chapters, current_chapter,
                   current_title, header_log>>

\* if "lines" not in block: continue
SkipBlock ==
    /\ pc = "walk"
    /\ pos <= Len(doc)
    /\ doc[pos].kind = "image"
    /\ pos' = pos + 1
    /\ UNCHANGED <<pipeline_vars, generator_vars, texts, stages, readable, doc, pc, handle, doc_structure, chapters,
                   current_chapter, current_title, header_log>>

\* a span that is_potential_header accepts
HeaderSpan ==
    /\ pc = "walk"
    /\ pos <= Len(doc)
    /\ doc[pos].kind = "span"
    /\ LET text == SpanText(doc[pos])
           font_size == Round1(doc[pos].size)
       IN  /\ is_potential_header(text, font_size, doc_structure)
           /\ chapters' = CloseOnHeader(chapters, current_title, current_chapter)
           /\ current_chapter' = ResetOnHeader(current_title, current_chapter)
           /\ current_title' = NewTitle(current_title, text, pos)
    /\ header_log' = Append(header_log, pos)
    /\ pos' = pos + 1
    /\ UNCHANGED <<pipeline_vars, generator_vars, texts, stages, readable, doc, pc, handle, doc_structure>>

\* a span that is_potential_header rejects
BodySpan ==
    /\ pc = "walk"
    /\ pos <= Len(doc)
    /\ doc[pos].kind = "span"
    /\ LET text == SpanText(doc[pos])
           font_size == Round1(doc[pos].size)
       IN  /\ ~is_potential_header(text, font_size, doc_structure)
           /\ current_chapter' = Accumulate(current_title, current_chapter, text, pos)
    /\ pos' = pos + 1
    /\ UNCHANGED <<pipeline_vars, generator_vars, texts, stages, readable, doc, pc, handle, doc_structure, chapters,
                   current_title, header_log>>

\* the end of the loops: the last chapter, then "return chapters"
Finish ==
    /\ pc = "walk"
    /\ pos > Len(doc)
    /\ chapters' = CloseAtEnd(chapters, current_title, current_chapter)
    /\ pc' = "done"
    /\ UNCHANGED <<pipeline_vars, generator_vars, texts, stages, readable, doc, handle, doc_structure, pos,
                   current_chapter, current_title, header_log>>

Next == Open \/ Analyze \/ SkipBlock \/ HeaderSpan \/ BodySpan \/ Finish

\* the state of a call of extract_chapters on a file whose content is d
Start(ok, d) ==
    /\ readable = ok
    /\ doc = d
    /\ pc = "open"
    /\ handle = "none"
    /\ doc_structure = NoStructure
    /\ pos = 0
    /\ chapters = <<>>
    /\ current_chapter = <<>>
    /\ current_title = None
    /\ header_log = <<>>
    /\ texts = <<>>
    /\ stages = <<>>
    /\ GeneratorIdle
    /\ PipelineIdle

(***************************************************************************)
(* The documents the model draws.                                          *)
(***************************************************************************)
MaxItems == 4       \* longest document over ShortPool
MaxSections == 2    \* most sections of a sectioned document
MaxSplit == 3       \* most spans a scenario body is split into

BodySize == 1000        \* 10.00 pt
BodySizeHigh == 1004    \* 10.04 pt, rounds to 10.0
BodySizeLow == 996      \* 9.96 pt, rounds to 10.0
HeadSize == 1800        \* 18.00 pt
SubHeadSize == 1600     \* 16.00 pt

XChar == 120            \* "x"
LongText(n) == Rep(XChar, n) \o <<>>

HdrChapter1 == Span(<<67, 104, 97, 112, 116, 101, 114, 32, 49>>, HeadSize)            \* "Chapter 1"
HdrPart2 == Span(<<80, 97, 114, 116, 32, 50>>, SubHeadSize)               \* "Part 2"
BigNote == Span(<<110, 111, 116, 101, 44, 32, 115, 101, 101, 46>>, HeadSize)               \* "note, see."
ShortB == Span(<<98>>, BodySizeHigh)                     \* "b"
ShortCC == Span(<<99, 99>>, BodySizeLow)                    \* "cc"
Blank == Span(<<32>>, BodySize)                          \* " "
IsbnLine == Span(<<73, 83, 66, 78, 32, 53>>, BodySize)                  \* "ISBN 5"
Long998 == Span(LongText(998), BodySize)                  \* "x" * 998

SeqsUpTo(S, n) == UNION {[1..k -> S] : k \in 0..n}

RECURSIVE Flatten(_)
Flatten(seqs) ==
    IF Len(seqs) = 0 THEN <<>> ELSE Head(seqs) \o Flatten(Tail(seqs))

\* every document of at most MaxItems blocks and spans over ShortPool
ShortPool == {HdrChapter1, BigNote, ShortB, ShortCC, Blank, ImageBlock}
ShortDocs == SeqsUpTo(ShortPool, MaxItems)

\* front matter, then at most MaxSections sections, each a heading span
\* followed by one of Bodies; joined by "\n" the bodies have
\* 0, 1, 1000, 1001, 1001, 1008 and 1008 characters.  The headings of a
\* document are all "Chapter 1", or "Chapter 1" and "Part 2" in turn.
Fronts == {<<>>, <<ShortB>>}
HeadingStyles == {<<HdrChapter1, HdrChapter1>>, <<HdrChapter1, HdrPart2>>}
Bodies == {<<>>, <<ShortB>>, <<Long998, ShortB>>, <<Long998, ShortCC>>,
           <<Long998, Blank, ShortB>>, <<Long998, ShortCC, IsbnLine>>,
           <<Long998, IsbnLine, ShortCC>>}
Sections(style, bodies) ==
    [k \in 1..Len(bodies) |-> <<style[((k - 1) % 2) + 1]>> \o bodies[k]]
SectionDocs ==
    {f \o Flatten(Sections(st, bs)) :
        f \in Fronts, st \in HeadingStyles, bs \in SeqsUpTo(Bodies, MaxSections)}

Docs == ShortDocs \cup SectionDocs

Init == (\E d \in Docs : Start(TRUE, d)) \/ Start(FALSE, <<>>)

Spec == Init /\ [][Next]_vars

(***************************************************************************)
(* The end-to-end scenario documents: an optional cover image, then the    *)
(* headings "Introduction", "Chapter One", "Chapter Two", each followed by *)
(* more than 1000 characters of body text in 1..MaxSplit spans, then       *)
(* "Appendix" followed by one span of 200 characters.                      *)
(***************************************************************************)
TitleIntroduction == <<73, 110, 116, 114, 111, 100, 117, 99, 116, 105, 111, 110>>   \* "Introduction"
TitleChapterOne == <<67, 104, 97, 112, 116, 101, 114, 32, 79, 110, 101>>      \* "Chapter One"
TitleChapterTwo == <<67, 104, 97, 112, 116, 101, 114, 32, 84, 119, 111>>      \* "Chapter Two"
TitleAppendix == <<65, 112, 112, 101, 110, 100, 105, 120>>           \* "Appendix"
AppendixLen == 200

\* k spans of body text: 1000 \div k + 1 characters each, so more than 1000
ScenarioBody(k) == [i \in 1..k |-> Span(LongText(min_chapter_length \div k + 1), BodySize)]

ScenarioDoc(cover, k1, k2, k3) ==
    cover
    \o <<Span(TitleIntroduction, HeadSize)>> \o ScenarioBody(k1)
    \o <<Span(TitleChapterOne, HeadSize)>> \o ScenarioBody(k2)
    \o <<Span(TitleChapterTwo, HeadSize)>> \o ScenarioBody(k3)
    \o <<Span(TitleAppendix, HeadSize), Span(LongText(AppendixLen), BodySize)>>

ScenarioDocs ==
    {ScenarioDoc(cover, k1, k2, k3) :
        cover \in {<<>>, <<ImageBlock>>},
        k1 \in 1..MaxSplit, k2 \in 1..MaxSplit, k3 \in 1..MaxSplit}

InitScenario == \E d \in ScenarioDocs : Start(TRUE, d)

SpecScenario == InitScenario /\ [][Next]_vars

(***************************************************************************)
(* The font-profile documents: of every 20 spans, 16 of size 10.00, 3 of   *)
(* sizes 10.04 and 9.96, and one heading of size 18.00; the heading block  *)
(* and the block of the noisy sizes each before or after the rest, after   *)
(* an optional cover image.                                                *)
(***************************************************************************)
MaxUnits == 2       \* most groups of 20 spans in a font-profile document

BodyX == Span(LongText(1), BodySize)                     \* "x"

ProfileDoc(cover, n, high, head_first, noise_first) ==
    LET body == Rep(BodyX, 16 * n)
        noise == Rep(ShortB, high) \o Rep(ShortCC, 3 * n - high)
        heads == Rep(HdrChapter1, n)
        text == IF noise_first THEN noise \o body ELSE body \o noise
    IN  cover \o (IF head_first THEN heads \o text ELSE text \o heads)

ProfileDocs ==
    UNION {{ProfileDoc(cover, n, high, head_first, noise_first) :
               cover \in {<<>>, <<ImageBlock>>},
               high \in 0..(3 * n),
               head_first \in BOOLEAN, noise_first \in BOOLEAN} :
           n \in 1..MaxUnits}

InitProfile == \E d \in ProfileDocs : Start(TRUE, d)

SpecProfile == InitProfile /\ [][Next]_vars

(***************************************************************************)
(* The classifier documents: body spans, spans of one size too frequent to *)
(* be a header size (in every second family), a blank span, the sentence   *)
(* and "Chapter 1" at the heading size, then one candidate span: a text of *)
(* ClassifierTexts at one of three sizes.                                  *)
(***************************************************************************)
FillerSpans == 8    \* body spans of a classifier document

TextChapter1 == <<67, 104, 97, 112, 116, 101, 114, 32, 49>>         \* "Chapter 1"
\* "This is a long sentence, with punctuation."
TextSentence ==
    <<84, 104, 105, 115, 32, 105, 115, 32, 97, 32, 108, 111, 110, 103, 32,
      115, 101, 110, 116, 101, 110, 99, 101, 44, 32, 119, 105, 116, 104, 32,
      112, 117, 110, 99, 116, 117, 97, 116, 105, 111, 110, 46>>
TextNote1 == <<110, 111, 116, 101, 32, 49, 46>>                    \* "note 1."
TextNote == <<110, 111, 116, 101, 46>>                             \* "note."
TextNoteSee == <<110, 111, 116, 101, 44, 32, 115, 101, 101, 46>>   \* "note, see."
TextGlava == <<1043, 1083, 1072, 1074, 1072, 46>>                  \* "Глава."

\* n words "x" with one space between them
Words(n) == [i \in 1..(2 * n - 1) |-> IF i % 2 = 1 THEN XChar ELSE 32]

ClassifierTexts ==
    {TextChapter1, TextSentence, TextNote1, TextNote, TextNoteSee, TextGlava,
     <<32, 9>>,                             \* " \t"
     <<32>> \o TextNote1 \o <<32>>,         \* " note 1. "
     Words(1), Words(15), Words(16),
     <<65, 32>> \o Words(19),               \* "A x ... x", 20 words
     <<65, 32, 49, 32>> \o Words(19),       \* "A 1 x ... x", 21 words
     Words(21) \o <<44>>}                   \* "x ... x,", 21 words

ClassifierDoc(cover, frequent, text, size) ==
    cover
    \o Rep(BodyX, FillerSpans)
    \o (IF frequent
        THEN Rep(Span(TextChapter1, SubHeadSize), FillerSpans \div 2)
        ELSE <<>>)
    \o <<Span(<<32>>, HeadSize), Span(TextSentence, HeadSize), HdrChapter1>>
    \o <<Span(text, size)>>

ClassifierDocs ==
    {ClassifierDoc(cover, frequent, text, size) :
        cover \in {<<>>, <<ImageBlock>>}, frequent \in BOOLEAN,
        text \in ClassifierTexts, size \in {BodySize, SubHeadSize, HeadSize}}

InitClassifier == \E d \in ClassifierDocs : Start(TRUE, d)

SpecClassifier == InitClassifier /\ [][Next]_vars

(***************************************************************************)
(* clean_text on its own: a text of up to MaxLines pieces of Pieces joined *)
(* by "\n", then clean_text of it, then clean_text of the result, up to    *)
(* MaxPasses times.                                                        *)
(***************************************************************************)
MaxLines == 3       \* most pieces of a text handed to clean_text
MaxPasses == 2      \* most applications of clean_text to a text

Pieces ==
    {<<>>,                                       \* ""
     <<32>>,                                     \* " "
     <<32, NL, NL>>,                             \* " \n\n"
     <<120>>,                                    \* "x"
     <<49>>,                                     \* "1"
     <<49, NL, 50>>,                             \* "1\n2"
     <<HASH, 32, 120>>,                          \* "# x"
     <<32, HASH>>,                               \* " #"
     <<LBRACK, 49, RBRACK>>,                     \* "[1]"
     <<105, 115, 98, 110>>,                      \* "isbn"
     <<105, 115, LBRACK, 49, RBRACK, 98, 110>>,  \* "is[1]bn"
     <<73, 83, 66, 78, 32, 53>>,                 \* "ISBN 5"
     <<1054, 1075, 1083, 1072, 1074, 1083, 1077, 1085, 1080, 1077>>}  \* "Оглавление"

RawTexts == {Join(lines, NL) : lines \in SeqsUpTo(Pieces, MaxLines) \ {<<>>}}

InitCleaner ==
    /\ texts \in {<<raw>> : raw \in RawTexts}
    /\ stages = <<>>
    /\ GeneratorIdle
    /\ PipelineIdle
    /\ pc = "clean"
    /\ readable = FALSE
    /\ doc = <<>>
    /\ handle = "none"
    /\ doc_structure = NoStructure
    /\ pos = 0
    /\ chapters = <<>>
    /\ current_chapter = <<>>
    /\ current_title = None
    /\ header_log = <<>>

\* text = self.clean_text(text)
Clean ==
    /\ pc = "clean"
    /\ Len(texts) <= MaxPasses
    /\ texts' = Append(texts, clean_text(texts[Len(texts)]))
    /\ \E t1 \in {SkipSections(texts[Len(texts)])} :
       \E t2 \in {StripTechnical(t1)} :
       \E t3 \in {CollapseBlankLines(t2)} :
       \E t4 \in {RemovePageNumbers(t3)} :
          stages' = <<t1, t2, t3, t4>>
    /\ UNCHANGED <<pipeline_vars, generator_vars, readable, doc, pc, handle, doc_structure, pos, chapters,
                   current_chapter, current_title, header_log>>

NextCleaner == Clean

SpecCleaner == InitCleaner /\ [][NextCleaner]_vars

(***************************************************************************)
(* The documents with headings that clean_text would change: an optional   *)
(* cover image, three body spans, then two sections, each a heading of     *)
(* KeywordTitles and a body that is one span "b" or more than 1000         *)
(* characters in 1..MaxSplit spans.                                        *)
(***************************************************************************)
TitleIsbn == <<73, 83, 66, 78, 32, 53>>                            \* "ISBN 5"
TitleCopyright == <<67, 111, 112, 121, LBRACK, 49, RBRACK, 114, 105, 103, 104, 116>> \* "Copy[1]right"
TitleContents == <<1054, 1075, 1083, 1072, 1074, 1083, 1077, 1085, 1080, 1077>> \* "Оглавление"
KeywordTitles == {TitleIsbn, TitleCopyright, TitleContents, TextChapter1}

TitledBodies == {<<ShortB>>} \cup {ScenarioBody(k) : k \in 1..MaxSplit}

TitledDocs ==
    {cover \o Rep(BodyX, 3)
        \o <<Span(t1, HeadSize)>> \o b1 \o <<Span(t2, HeadSize)>> \o b2 :
        cover \in {<<>>, <<ImageBlock>>},
        t1 \in KeywordTitles, t2 \in KeywordTitles,
        b1 \in TitledBodies, b2 \in TitledBodies}

InitTitles == \E d \in TitledDocs : Start(TRUE, d)

SpecTitles == InitTitles /\ [][Next]_vars

(***************************************************************************)
(* generate_mindmap of mindmap_generator.py.  What the API answers to a    *)
(* request is a record: ok with the content of the answer, or not ok with  *)
(* str(e) of the exception raised.  Of the chunks of a text only the       *)
(* number is kept: the prompt, the language and the tokenizer are left     *)
(* out.                                                                    *)
(***************************************************************************)
max_retries == 3
request_delay == 1

\* "rate_limit"
LitRateLimit == <<114, 97, 116, 101, 95, 108, 105, 109, 105, 116>>

\* the test of the except block without lower()
IsRateLimitCaseSensitive(message) == Contains(message, LitRateLimit)

\* "rate_limit" in str(e).lower()
IsRateLimit(message) == Contains(Lower(message), LitRateLimit)

\* the loops of combine_chunk_results over the lines of all results: the
\* lines kept, has_title telling whether main_title is set, seen being
\* seen_content
RECURSIVE CombineLines(_, _, _)
CombineLines(lines, has_title, seen) ==
    IF Len(lines) = 0 THEN <<>>
    ELSE LET line == Head(lines)
             cleaned_line == Lower(Strip(line))
         IN  IF HasAt(line, 1, <<HASH, 32>>)
             THEN IF ~has_title
                  THEN <<line>> \o CombineLines(Tail(lines), TRUE, seen)
                  ELSE CombineLines(Tail(lines), has_title, seen)
             ELSE IF Len(cleaned_line) > 0 /\ cleaned_line \notin seen
                  THEN <<line>> \o CombineLines(Tail(lines), has_title,
                                                seen \cup {cleaned_line})
                  ELSE CombineLines(Tail(lines), has_title, seen)

combine_chunk_results(results) ==
    Join(CombineLines(Flatten([k \in 1..Len(results) |-> SplitLines(results[k])]),
                      FALSE, {}), NL)

\* a cache file, json {'mindmap': mindmap}, or no file
CacheEntry(mindmap) == [present |-> TRUE, mindmap |-> mindmap]
NoEntry == [present |-> FALSE, mindmap |-> <<>>]
\* "if cached_result": the file of the text is there and its mindmap is not ""
CacheHit(c, text) == c[text].present /\ Len(c[text].mindmap) > 0
\* save_to_cache(text, mindmap)
SaveToCache(c, text, mindmap) == [c EXCEPT ![text] = CacheEntry(mindmap)]

\* cached_result = self.get_from_cache(text); if cached_result: return ...;
\* otherwise the first chunk: max_retries = 3, retry_delay = request_delay
GenerateStart ==
    /\ pc = "generate"
    /\ IF CacheHit(cache, call.text)
       THEN /\ result' = cache[call.text].mindmap
            /\ pc' = "returned"
            /\ UNCHANGED <<attempt, retry_delay>>
       ELSE /\ attempt' = 0
            /\ retry_delay' = request_delay
            /\ pc' = "attempt"
            /\ UNCHANGED result
    /\ UNCHANGED <<call, slept, all_results, cache, extractor_vars, cleaner_vars, pipeline_vars>>

\* an attempt that the API answers: time.sleep(retry_delay), the request,
\* all_results.append(chunk_result), break
AttemptAnswered ==
    /\ pc = "attempt"
    /\ attempt < max_retries
    /\ call.responses[Len(slept) + 1].ok
    /\ slept' = Append(slept, retry_delay)
    /\ all_results' = Append(all_results, call.responses[Len(slept) + 1].text)
    /\ pc' = "combine"
    /\ UNCHANGED <<call, attempt, retry_delay, cache, result,
                   extractor_vars, cleaner_vars, pipeline_vars>>

\* an attempt that ends in an exception with "rate_limit" in its message:
\* retry_delay *= 2, continue
AttemptRateLimited ==
    /\ pc = "attempt"
    /\ attempt < max_retries
    /\ ~call.responses[Len(slept) + 1].ok
    /\ IsRateLimit(call.responses[Len(slept) + 1].text)
    /\ slept' = Append(slept, retry_delay)
    /\ retry_delay' = 2 * retry_delay
    /\ attempt' = attempt + 1
    /\ UNCHANGED <<call, pc, all_results, cache, result,
                   extractor_vars, cleaner_vars, pipeline_vars>>

\* an attempt that ends in any other exception: raise, which the except
\* block of generate_mindmap logs and raises again
AttemptFailed ==
    /\ pc = "attempt"
    /\ attempt < max_retries
    /\ ~call.responses[Len(slept) + 1].ok
    /\ ~IsRateLimit(call.responses[Len(slept) + 1].text)
    /\ slept' = Append(slept, retry_delay)
    /\ pc' = "raised"
    /\ UNCHANGED <<call, attempt, retry_delay, all_results, cache, result,
                   extractor_vars, cleaner_vars, pipeline_vars>>

\* "for attempt in range(max_retries)" has run out
AttemptsExhausted ==
    /\ pc = "attempt"
    /\ attempt = max_retries
    /\ pc' = "combine"
    /\ UNCHANGED <<generator_vars, extractor_vars, cleaner_vars, pipeline_vars>>

\* combined_result = self.combine_chunk_results(all_results);
\* self.save_to_cache(text, combined_result); return combined_result: inside
\* the loop over the chunks, so after the first chunk
CombineAndReturn ==
    /\ pc = "combine"
    /\ \E combined_result \in {combine_chunk_results(all_results)} :
          /\ cache' = SaveToCache(cache, call.text, combined_result)
          /\ result' = combined_result
    /\ pc' = "returned"
    /\ UNCHANGED <<call, attempt, retry_delay, slept, all_results,
                   extractor_vars, cleaner_vars, pipeline_vars>>

NextGenerator ==
    \/ GenerateStart
    \/ AttemptAnswered
    \/ AttemptRateLimited
    \/ AttemptFailed
    \/ AttemptsExhausted
    \/ CombineAndReturn

MaxChunks == 2      \* most chunks a text is split into

GenTexts == {<<120>>, <<121>>}                  \* "x", "y"
\* "# T\n- a\n- A\n\n# U\n- b"
AnswerLong ==
    <<HASH, 32, 84, NL, 45, 32, 97, NL, 45, 32, 65, NL, NL, HASH, 32, 85, NL,
      45, 32, 98>>
AnswerShort == <<45, 32, 97>>                   \* "- a"
\* "Error code: 429 - rate_limit_exceeded"
ErrorRateLimit ==
    <<69, 114, 114, 111, 114, 32, 99, 111, 100, 101, 58, 32, 52, 50, 57, 32,
      45, 32>> \o LitRateLimit \o <<95, 101, 120, 99, 101, 101, 100, 101, 100>>
\* "Rate_Limit reached"
ErrorRateLimitCapitals ==
    <<82, 97, 116, 101, 95, 76, 105, 109, 105, 116, 32, 114, 101, 97, 99, 104,
      101, 100>>
\* "Rate limit reached"
ErrorRateLimitWords ==
    <<82, 97, 116, 101, 32, 108, 105, 109, 105, 116, 32, 114, 101, 97, 99, 104,
      101, 100>>
ErrorTimeout == <<116, 105, 109, 101, 111, 117, 116>>     \* "timeout"

Responses ==
    {[ok |-> TRUE, text |-> t] : t \in {AnswerLong, AnswerShort}}
    \cup {[ok |-> FALSE, text |-> t] :
             t \in {ErrorRateLimit, ErrorRateLimitCapitals, ErrorRateLimitWords,
                    ErrorTimeout}}

\* the cache directory before the call: empty, or with a file for one text
\* whose mindmap is "- a" or ""
Caches ==
    {[t \in GenTexts |-> NoEntry]}
    \cup {[t \in GenTexts |-> IF t = u THEN CacheEntry(m) ELSE NoEntry] :
             u \in GenTexts, m \in {AnswerShort, <<>>}}

ExtractorIdle ==
    /\ readable = FALSE
    /\ doc = <<>>
    /\ handle = "none"
    /\ doc_structure = NoStructure
    /\ pos = 0
    /\ chapters = <<>>
    /\ current_chapter = <<>>
    /\ current_title = None
    /\ header_log = <<>>

InitGenerator ==
    /\ pc = "generate"
    /\ PipelineIdle
    /\ call \in [text : GenTexts, chunks : 1..MaxChunks,
                 responses : [1..max_retries -> Responses]]
    /\ cache \in Caches
    /\ attempt = 0
    /\ retry_delay = 0
    /\ slept = <<>>
    /\ all_results = <<>>
    /\ result = <<>>
    /\ ExtractorIdle
    /\ CleanerIdle

SpecGenerator == InitGenerator /\ [][NextGenerator]_vars

(***************************************************************************)
(* save_chapters_to_files, and the generation loop of app.py with          *)
(* process_chapters_to_mindmaps and process_chapter of                     *)
(* mindmap_generator.py.  A directory is the set of its files; a file is   *)
(* its name, its bytes and, as history that no action reads, the number of *)
(* the chapter it was last written for (0: it was there before).  A mind   *)
(* map file also keeps the name of the chapter file it was generated from  *)
(* and the title process_chapter read there.  os.linesep is "\n".          *)
(***************************************************************************)
separator_length == 50
EQUALS == 61
LitChapter == <<99, 104, 97, 112, 116, 101, 114, 95>>               \* "chapter_"
LitTxt == <<DOT, 116, 120, 116>>                                    \* ".txt"
LitTitle == <<84, 105, 116, 108, 101, COLON, 32>>                   \* "Title: "
LitMindmapMd == <<95, 109, 105, 110, 100, 109, 97, 112, DOT, 109, 100>> \* "_mindmap.md"
LitUntitled == <<85, 110, 116, 105, 116, 108, 101, 100>>            \* "Untitled"
LitHeading == <<HASH, 32>>                                          \* "# "

\* str(n) of an integer n >= 0
RECURSIVE Decimal(_)
Decimal(n) ==
    IF n < 10 THEN <<48 + n>> ELSE Decimal(n \div 10) \o <<48 + (n % 10)>>

\* the number without the padding
Format02dUnpadded(n) == Decimal(n)

\* f"{n:02d}"
Format02d(n) == IF n < 10 THEN <<48>> \o Decimal(n) ELSE Decimal(n)

\* f"chapter_{i:02d}.txt"
ChapterFileName(i) == LitChapter \o Format02d(i) \o LitTxt

\* f"Title: {title}\n{'='*50}\n\n" followed by content
ChapterFileText(title, content) ==
    LitTitle \o title \o <<NL>> \o Rep(EQUALS, separator_length) \o <<NL, NL>>
      \o content

\* the UTF-8 bytes of one code point
EncodeChar(c) ==
    IF c < 128 THEN <<c>>
    ELSE IF c < 2048 THEN <<192 + (c \div 64), 128 + (c % 64)>>
    ELSE IF c < 65536
         THEN <<224 + (c \div 4096), 128 + ((c \div 64) % 64), 128 + (c % 64)>>
    ELSE <<240 + (c \div 262144), 128 + ((c \div 4096) % 64),
           128 + ((c \div 64) % 64), 128 + (c % 64)>>

\* s[lo..hi].encode('utf-8')
RECURSIVE EncodeRange(_, _, _)
EncodeRange(s, lo, hi) ==
    IF lo > hi THEN <<>>
    ELSE IF lo = hi THEN EncodeChar(s[lo])
    ELSE EncodeRange(s, lo, (lo + hi) \div 2) \o EncodeRange(s, (lo + hi) \div 2 + 1, hi)

\* what f.write(s) puts in a file opened with open(path, 'w', encoding='utf-8')
WriteFile(s) == EncodeRange(s, 1, Len(s))

\* the code point of the UTF-8 sequence that starts at byte i of b
DecodeChar(b, i) ==
    IF b[i] < 128 THEN b[i]
    ELSE IF b[i] < 224 THEN (b[i] - 192) * 64 + (b[i + 1] - 128)
    ELSE IF b[i] < 240
         THEN (b[i] - 224) * 4096 + (b[i + 1] - 128) * 64 + (b[i + 2] - 128)
    ELSE (b[i] - 240) * 262144 + (b[i + 1] - 128) * 4096
           + (b[i + 2] - 128) * 64 + (b[i + 3] - 128)

\* the code points of the UTF-8 sequences of well-formed b that start in lo..hi
\* (a byte in 128..191 continues a sequence)
RECURSIVE DecodeRange(_, _, _)
DecodeRange(b, lo, hi) ==
    IF lo > hi THEN <<>>
    ELSE IF lo = hi
         THEN IF b[lo] >= 128 /\ b[lo] < 192 THEN <<>> ELSE <<DecodeChar(b, lo)>>
    ELSE DecodeRange(b, lo, (lo + hi) \div 2) \o DecodeRange(b, (lo + hi) \div 2 + 1, hi)

\* the newlines of text mode on reading s[lo..hi]: "\r\n" and "\r" (13)
\* become "\n"
RECURSIVE TranslateNewlines(_, _, _)
TranslateNewlines(s, lo, hi) ==
    IF lo > hi THEN <<>>
    ELSE IF lo = hi
         THEN IF s[lo] = 13 THEN <<NL>>
              ELSE IF s[lo] = NL /\ lo > 1 /\ s[lo - 1] = 13 THEN <<>>
              ELSE <<s[lo]>>
    ELSE TranslateNewlines(s, lo, (lo + hi) \div 2)
           \o TranslateNewlines(s, (lo + hi) \div 2 + 1, hi)

\* f.read() of a file opened with open(path, 'r', encoding='utf-8')
ReadFile(data) ==
    LET text == DecodeRange(data, 1, Len(data))
    IN  TranslateNewlines(text, 1, Len(text))

\* s.replace(p, '') from index i on
RECURSIVE RemoveFrom(_, _, _)
RemoveFrom(s, p, i) ==
    IF i > Len(s) THEN <<>>
    ELSE IF HasAt(s, i, p) THEN RemoveFrom(s, p, i + Len(p))
    ELSE <<s[i]>> \o RemoveFrom(s, p, i + 1)

\* the title process_chapter reads in the content of a chapter file
ReadTitle(content) ==
    LET lines == SplitLines(content)
        hits == {j \in 1..Len(lines) : HasAt(lines[j], 1, LitTitle)}
    IN  IF hits = {} THEN LitUntitled
        ELSE Strip(RemoveFrom(lines[CHOOSE j \in hits : \A h \in hits : j <= h],
                              LitTitle, 1))

\* Path(name).stem
Stem(name) ==
    LET dots == {j \in 1..Len(name) : name[j] = DOT}
    IN  IF dots = {} THEN name
        ELSE LET last == CHOOSE j \in dots : \A d \in dots : d <= j
             IN  IF 1 < last /\ last < Len(name) THEN SubSeq(name, 1, last - 1)
                 ELSE name

\* every chapter file gets the mind map file of chapter_01.txt
MindmapFileNameFirst(chapter_path) == Stem(ChapterFileName(1)) \o LitMindmapMd

\* f"{Path(chapter_path).stem}_mindmap.md"
MindmapFileName(chapter_path) == Stem(chapter_path) \o LitMindmapMd

\* f"chapter_{i:02d}_mindmap.md", the file the application reads for chapter i
AppMindmapName(i) == LitChapter \o Format02d(i) \o LitMindmapMd

\* name matches "*.txt"
IsTxt(name) == Len(name) >= Len(LitTxt) /\ HasAt(name, Len(name) - Len(LitTxt) + 1, LitTxt)

\* a <= b for str
LexLeq(a, b) ==
    \E n \in 0..Len(a) :
        /\ n <= Len(b)
        /\ \A j \in 1..n : a[j] = b[j]
        /\ n < Len(a) => (n < Len(b) /\ a[n + 1] < b[n + 1])

\* sorted(names)
RECURSIVE SortNames(_)
SortNames(names) ==
    IF names = {} THEN <<>>
    ELSE LET least == CHOOSE a \in names : \A b \in names : LexLeq(a, b)
         IN  <<least>> \o SortNames(names \ {least})

Exists(dir, name) == \E f \in dir : f.name = name
FileAt(dir, name) == CHOOSE f \in dir : f.name = name

\* dir after open(name, 'w') and the writes of text
Write(dir, name, text, by) ==
    {f \in dir : f.name # name}
      \cup {[name |-> name, data |-> WriteFile(text), by |-> by]}

\* the mind maps directory after process_chapter(chapter_path, output_dir),
\* when generate_mindmap answers outcome
process_chapter(dir, output_dir, chapter_path, outcome) ==
    LET content == ReadFile(FileAt(dir, chapter_path).data)
        title == ReadTitle(content)
        mindmap_filename == MindmapFileName(chapter_path)
    IN  IF ~outcome.ok \/ Exists(output_dir, mindmap_filename) THEN output_dir
        ELSE output_dir \cup
               {[name |-> mindmap_filename,
                 data |-> WriteFile(LitHeading \o title \o <<NL, NL>> \o outcome.text),
                 by |-> FileAt(dir, chapter_path).by,
                 from |-> chapter_path,
                 title |-> title]}

\* the mind maps directory after the loop over chapters_to_process from j on
RECURSIVE ProcessFrom(_, _, _, _, _)
ProcessFrom(dir, output_dir, chapters_to_process, outcomes, j) ==
    IF j > Len(chapters_to_process) THEN output_dir
    ELSE ProcessFrom(dir,
                     process_chapter(dir, output_dir, chapters_to_process[j],
                                     outcomes[j]),
                     chapters_to_process, outcomes, j + 1)

\* the chapter files without a mind map, in the order they are processed
ChaptersToProcess(dir, output_dir) ==
    SortNames({f.name : f \in {g \in dir :
        IsTxt(g.name) /\ ~Exists(output_dir, MindmapFileName(g.name))}})

\* what generate_mindmap does in process_chapter: it returns a text or raises
Outcomes == {[ok |-> TRUE, text |-> AnswerShort], [ok |-> FALSE, text |-> <<>>]}

\* one pass of the loop of save_chapters_to_files
SaveChapter ==
    /\ pc = "save"
    /\ index <= Len(chapters)
    /\ files' = Write(files, ChapterFileName(index),
                      ChapterFileText(chapters[index].title, chapters[index].body),
                      index)
    /\ index' = index + 1
    /\ UNCHANGED <<pc, mindmaps, attached, extractor_vars, cleaner_vars, generator_vars>>

\* save_chapters_to_files returns
SaveReturn ==
    /\ pc = "save"
    /\ index > Len(chapters)
    /\ pc' = "saved"
    /\ UNCHANGED <<pipeline_vars, extractor_vars, cleaner_vars, generator_vars>>

NextSave == SaveChapter \/ SaveReturn

\* the generation loop of the application starts
AppStart ==
    /\ pc = "saved"
    /\ pc' = "app"
    /\ index' = 1
    /\ UNCHANGED <<files, mindmaps, attached, extractor_vars, cleaner_vars, generator_vars>>

\* one pass of the generation loop: the chapter file is written again,
\* process_chapters_to_mindmaps runs, the mind map file of the chapter is
\* read; without that file the pass ends in the except block
AppChapter ==
    /\ pc = "app"
    /\ index <= Len(chapters)
    /\ \E dir \in {Write(files, ChapterFileName(index),
                         ChapterFileText(chapters[index].title, chapters[index].body),
                         index)} :
       \E chapters_to_process \in {ChaptersToProcess(dir, mindmaps)} :
       \E outcomes \in [1..Len(chapters_to_process) -> Outcomes] :
       \E output_dir \in {ProcessFrom(dir, mindmaps, chapters_to_process, outcomes, 1)} :
          /\ files' = dir
          /\ mindmaps' = output_dir
          /\ attached' =
                IF Exists(output_dir, AppMindmapName(index))
                THEN Append(attached, [chapter |-> index,
                                       file |-> FileAt(output_dir, AppMindmapName(index))])
                ELSE attached
    /\ index' = index + 1
    /\ UNCHANGED <<pc, extractor_vars, cleaner_vars, generator_vars>>

\* the generation loop ends: after the last chapter, or stopped by the user
AppDone ==
    /\ pc = "app"
    /\ pc' = "done"
    /\ UNCHANGED <<pipeline_vars, extractor_vars, cleaner_vars, generator_vars>>

NextPipeline == SaveChapter \/ SaveReturn \/ AppStart \/ AppChapter \/ AppDone

(***************************************************************************)
(* save_chapters_to_files on its own: a list of up to 2 chapters, or of 9, *)
(* 10, 99 or MaxChapters chapters, written to a directory that is empty or *)
(* absent, or that holds a "chapter_03.txt" already.                       *)
(***************************************************************************)
MaxChapters == 100
GivenChapter(title, body) == [title |-> title, body |-> body, src |-> 0, from |-> <<>>]
\* "Chapter 1" with "b", "Оглавление" with "b\n\nb"
SaveChapters ==
    {GivenChapter(TextChapter1, <<98>>), GivenChapter(TitleContents, <<98, NL, NL, 98>>)}
SaveLists ==
    SeqsUpTo(SaveChapters, 2)
      \cup {Rep(c, n) : c \in SaveChapters, n \in {9, 10, 99, MaxChapters}}
StaleFile == [name |-> LitChapter \o <<48, 51>> \o LitTxt, data |-> <<XChar>>, by |-> 0]

\* the variables of extract_chapters but pc and chapters are idle
NoExtraction ==
    /\ readable = FALSE
    /\ doc = <<>>
    /\ handle = "none"
    /\ doc_structure = NoStructure
    /\ pos = 0
    /\ current_chapter = <<>>
    /\ current_title = None
    /\ header_log = <<>>

InitSave ==
    /\ pc = "save"
    /\ index = 1
    /\ chapters \in SaveLists
    /\ files \in {{}, {StaleFile}}
    /\ mindmaps = {}
    /\ attached = <<>>
    /\ NoExtraction
    /\ CleanerIdle
    /\ GeneratorIdle

SpecSave == InitSave /\ [][NextSave]_vars

(***************************************************************************)
(* The generation loop of the application on the chapters a book gave: 1   *)
(* to MaxBook chapters with bodies of more than min_chapter_length         *)
(* characters, all the same or three kinds in turn, in the fresh           *)
(* directories of a temporary directory.                                   *)
(***************************************************************************)
MaxBook == 3
TextTitleA == LitTitle \o <<65>>                                \* "Title: A"
TextA == <<65>>                                                 \* "A"
BookChapters ==
    <<GivenChapter(TextChapter1, LongText(min_chapter_length + 1)),
      GivenChapter(TextTitleA, LongText(min_chapter_length) \o <<NL, NL, 98>>),
      GivenChapter(TextA, LongText(min_chapter_length + 2))>>
\* n chapters: BookChapters in turn from one of them on, or one of them n times
BookList(first, n) ==
    [j \in 1..n |-> BookChapters[((first + j - 2) % Len(BookChapters)) + 1]]
BookLists ==
    UNION {{BookList(first, n), Rep(BookChapters[first], n)} :
              first \in 1..Len(BookChapters), n \in 1..MaxBook}

InitPipeline ==
    /\ pc = "save"
    /\ index = 1
    /\ chapters \in BookLists
    /\ files = {}
    /\ mindmaps = {}
    /\ attached = <<>>
    /\ NoExtraction
    /\ CleanerIdle
    /\ GeneratorIdle

SpecPipeline == InitPipeline /\ [][NextPipeline]_vars

(***************************************************************************)
(* Properties.  What the properties say of a document is computed from the *)
(* document itself: the header spans by classifying every span again, the  *)
(* text of a section by joining its spans.                                 *)
(***************************************************************************)

\* span i is one that is_potential_header accepts under the profile
IsHeader(i) ==
    /\ doc[i].kind = "span"
    /\ is_potential_header(SpanText(doc[i]), Round1(doc[i].size), doc_structure)

HeaderSpans == {i \in 1..Len(doc) : IsHeader(i)}

\* the index of the first header span after h; Len(doc) + 1 at end of document
SectionEnd(h) ==
    IF \E j \in (h + 1)..Len(doc) : IsHeader(j)
    THEN CHOOSE j \in (h + 1)..Len(doc) :
             IsHeader(j) /\ \A m \in (h + 1)..(j - 1) : ~IsHeader(m)
    ELSE Len(doc) + 1

\* the spans between header span h and the next header span, in reading order
SectionSpans(h) ==
    Sorted({i \in (h + 1)..(SectionEnd(h) - 1) : doc[i].kind = "span"})

\* their texts joined by newlines
SectionText(h) ==
    LET ss == SectionSpans(h)
    IN  Join([k \in 1..Len(ss) |-> SpanText(doc[ss[k]])], NL)

\* the walk has passed the end of the section of header span h
SectionClosed(h) ==
    \/ pc = "done"
    \/ pc = "walk" /\ SectionEnd(h) < pos

\* the (title, body) pairs returned
Returned == [k \in 1..Len(chapters) |-> <<chapters[k].title, chapters[k].body>>]
Titles == [k \in 1..Len(chapters) |-> chapters[k].title]
Sources == {chapters[k].src : k \in 1..Len(chapters)}

\* C1: every chapter in the output has a cleaned body of more than 1000
\* characters, and a section that has been closed, by a following header or
\* by the end of the document, with at least one span in it is in the output
\* exactly if clean_text leaves it more than 1000 characters (1000: dropped,
\* 1001: kept).
C1_LengthFilter ==
    /\ \A k \in 1..Len(chapters) : Len(chapters[k].body) > 1000
    /\ \A h \in HeaderSpans :
          (SectionClosed(h) /\ Len(SectionSpans(h)) > 0)
              => ((h \in Sources) <=> (Len(clean_text(SectionText(h))) >= 1001))

\* a section of exactly 1000 cleaned characters closed by a header and
\* dropped, a later one of exactly 1001 closed by the end of the document
\* and kept
C1_Witness ==
    /\ pc = "done"
    /\ \E h1, h2 \in HeaderSpans :
          /\ h1 < h2
          /\ Len(clean_text(SectionText(h1))) = 1000 /\ h1 \notin Sources
          /\ Len(clean_text(SectionText(h2))) = 1001 /\ h2 \in Sources

\* a section of exactly 1001 cleaned characters closed by a header and kept,
\* a later one of exactly 1000 closed by the end of the document and dropped
C1_WitnessHeaderClose ==
    /\ pc = "done"
    /\ \E h1, h2 \in HeaderSpans :
          /\ h1 < h2
          /\ Len(clean_text(SectionText(h1))) = 1001 /\ h1 \in Sources
          /\ Len(clean_text(SectionText(h2))) = 1000 /\ h2 \notin Sources

\* C2: the output never has more chapters than the walk has classified
\* header spans; every chapter was opened by one header span the walk
\* classified, and no header span opened two chapters.
C2_OnePerHeader ==
    /\ Len(chapters) <= Len(header_log)
    /\ \A k \in 1..Len(chapters) : chapters[k].src \in Elems(header_log)
    /\ \A j, k \in 1..Len(chapters) :
          chapters[j].src = chapters[k].src => j = k
    /\ \A j, k \in 1..Len(header_log) : header_log[j] = header_log[k] => j = k
    /\ Elems(header_log) \subseteq HeaderSpans

\* two header spans classified, each the opening of a returned chapter
C2_Witness ==
    /\ pc = "done"
    /\ Len(header_log) = 2
    /\ Len(chapters) = 2
    /\ chapters[1].src # chapters[2].src

\* C3: the titles of the output, in output order, are the texts of header
\* spans taken in reading order: each title is the text of the header span
\* that opened the chapter, and the chapters are in the order of those spans.
C3_TitlesInOrder ==
    /\ \A k \in 1..Len(chapters) :
          /\ chapters[k].src \in HeaderSpans
          /\ chapters[k].title = SpanText(doc[chapters[k].src])
    /\ \A j, k \in 1..Len(chapters) :
          j < k => chapters[j].src < chapters[k].src

\* two chapters returned under different titles, the earlier heading first
C3_Witness ==
    /\ pc = "done"
    /\ Len(chapters) = 2
    /\ chapters[1].title # chapters[2].title
    /\ chapters[1].src < chapters[2].src

\* C4: the body of a chapter in the output is clean_text of the texts, joined
\* by newlines in reading order, of exactly the spans between the chapter's
\* header span and the next header span or the end of the document.
C4_BodyIsSection ==
    \A k \in 1..Len(chapters) :
        /\ chapters[k].from = SectionSpans(chapters[k].src)
        /\ chapters[k].body = clean_text(SectionText(chapters[k].src))

\* a returned chapter after an earlier section, made of several spans, whose
\* body the cleaning has changed
C4_Witness ==
    /\ pc = "done"
    /\ \E k \in 1..Len(chapters) :
          /\ Len(chapters[k].from) >= 3
          /\ chapters[k].body # SectionText(chapters[k].src)
          /\ \E h \in HeaderSpans : h < chapters[k].src /\ Len(SectionSpans(h)) > 0

\* C5: a section closed with a cleaned text of at most 1000 characters is
\* not in the output, and none of its spans is in the body of a chapter of
\* the output, before it or after it; when a header span has closed it, none
\* of its spans is left in the accumulator (the close at the end of the
\* document is followed by the return, and leaves the accumulator as it is).
C5_DiscardedNotMerged ==
    \A h \in HeaderSpans :
        (SectionClosed(h) /\ Len(clean_text(SectionText(h))) <= 1000)
            => /\ h \notin Sources
               /\ \A p \in Elems(SectionSpans(h)) :
                     /\ pc = "walk" => p \notin Elems(Positions(current_chapter))
                     /\ \A k \in 1..Len(chapters) : p \notin Elems(chapters[k].from)

\* a discarded section with text in it between two returned chapters
C5_Witness ==
    /\ pc = "done"
    /\ \E h \in HeaderSpans :
          /\ h \notin Sources
          /\ Len(SectionSpans(h)) > 0
          /\ \E k \in 1..Len(chapters) : chapters[k].src > h

\* C6: as long as the walk has classified no header span, the output is
\* empty, no title is open and the accumulator is empty, whatever spans were
\* processed; and no span before the first header span is in the body of a
\* chapter or in the accumulator.
C6_BeforeFirstHeader ==
    /\ header_log = <<>> =>
          /\ chapters = <<>>
          /\ current_title = None
          /\ current_chapter = <<>>
    /\ header_log # <<>> =>
          /\ \A p \in Elems(Positions(current_chapter)) : p > header_log[1]
          /\ \A k \in 1..Len(chapters) :
                \A p \in Elems(chapters[k].from) : p > header_log[1]

\* a chapter returned from a document with text before its first header span
C6_Witness ==
    /\ pc = "done"
    /\ Len(chapters) >= 1
    /\ \E i \in 1..(header_log[1] - 1) :
          doc[i].kind = "span" /\ Len(SpanText(doc[i])) > 0

\* C7: when the call has returned, the section of the last header span is
\* the last chapter of the output, with the header's text as title and its
\* cleaned text as body, exactly if it has a span in it and its cleaned text
\* is longer than 1000 characters.
C7_FinalClose ==
    (pc = "done" /\ header_log # <<>>) =>
        LET h == header_log[Len(header_log)]
            cleaned == clean_text(SectionText(h))
        IN  IF Len(SectionSpans(h)) > 0 /\ Len(cleaned) > 1000
            THEN /\ chapters # <<>>
                 /\ Returned[Len(chapters)] = <<SpanText(doc[h]), cleaned>>
                 /\ chapters[Len(chapters)].src = h
            ELSE h \notin Sources

\* the last section of a document returned after an earlier chapter
C7_Witness ==
    /\ pc = "done"
    /\ Len(chapters) = 2
    /\ chapters[2].src = header_log[Len(header_log)]
    /\ SectionEnd(chapters[2].src) = Len(doc) + 1

\* the non-empty spans of the document in the body size, in the heading size
BodySpans == {i \in Counted(doc) : Round1(doc[i].size) = Round1(BodySize)}
HeadingSpans == {i \in Counted(doc) : Round1(doc[i].size) = Round1(HeadSize)}

ScenarioTitles == <<TitleIntroduction, TitleChapterOne, TitleChapterTwo>>

\* C8 as stated: of every document of the scenario, whatever the number of
\* spans its body text is in, the call returns the three chapters
\* "Introduction", "Chapter One", "Chapter Two" in that order.
C8_AsStated == pc = "done" => Titles = ScenarioTitles

\* C8: of a document of the scenario whose non-empty spans in the body size
\* are more than twice its spans in the heading size, the call returns
\* exactly the chapters "Introduction", "Chapter One", "Chapter Two", in that
\* order, each with its cleaned section as body, and no "Appendix"; of a
\* document of the scenario with fewer body spans the heading size is no
\* header size and the call returns no chapter.
C8_Scenario ==
    pc = "done" =>
        IF 2 * Cardinality(HeadingSpans) < Cardinality(BodySpans)
        THEN /\ Titles = ScenarioTitles
             /\ \A k \in 1..Len(chapters) :
                   /\ chapters[k].body = clean_text(SectionText(chapters[k].src))
                   /\ Len(chapters[k].body) > 1000
             /\ \A k \in 1..Len(chapters) : chapters[k].title # TitleAppendix
        ELSE chapters = <<>>

\* the three chapters returned from a document of the scenario with the
\* fewest body spans that make the heading size a header size, its
\* "Appendix" classified and dropped
C8_Witness ==
    /\ pc = "done"
    /\ Titles = ScenarioTitles
    /\ Cardinality(BodySpans) = 2 * Cardinality(HeadingSpans) + 1
    /\ Len(header_log) = 4
    /\ SpanText(doc[header_log[4]]) = TitleAppendix

\* C9: of a document whose non-empty spans all have one rounded font size,
\* the profile has no header font size, no span is classified as a header,
\* and the call returns an empty list and does not raise.
C9_SingleFontSize ==
    (readable /\ Cardinality(FontSizes(doc)) = 1) =>
        /\ pc # "raised"
        /\ pc \in {"walk", "done"} =>
              /\ doc_structure.header_font_sizes = <<>>
              /\ HeaderSpans = {}
              /\ header_log = <<>>
              /\ chapters = <<>>

\* the call has returned from a document of one rounded font size, in
\* spans of different sizes before rounding, one of which has a text that
\* passes the tests is_potential_header makes of the text
C9_Witness ==
    /\ pc = "done"
    /\ chapters = <<>>
    /\ Cardinality(FontSizes(doc)) = 1
    /\ \E i, j \in Counted(doc) : doc[i].size # doc[j].size
    /\ \E i \in Counted(doc) :
          /\ WordCount(SpanText(doc[i])) <= 20
          /\ IndicatorCount(SpanText(doc[i])) >= 3

\* C10 as stated: a call on a readable document with no non-empty span, or
\* with text and no span classified as a header, does not raise and returns
\* an empty list.
C10_NoTextNotFatal ==
    (readable /\ (Counted(doc) = {} \/ HeaderSpans = {})) =>
        /\ pc # "raised"
        /\ pc = "done" => chapters = <<>>

\* C11: analyze_document_structure raises on a document with no counted
\* span: the call of extract_chapters never gets a profile from it, and a
\* profile that was returned has as main_font_size a size observed in the
\* document.
C11_EmptyProfileRaises ==
    /\ (readable /\ Counted(doc) = {}) =>
          /\ pc \in {"open", "analyze", "raised"}
          /\ doc_structure = NoStructure
    /\ pc \in {"walk", "done"} =>
          doc_structure.main_font_size \in FontSizes(doc)

\* the analysis has raised on a document that has blocks or spans, none of
\* them a span with text
C11_Witness ==
    /\ pc = "raised"
    /\ readable
    /\ Len(doc) > 0
    /\ Counted(doc) = {}

\* C12: a call on a file that cannot be opened or parsed never returns: it
\* ends raised, with no handle, no profile and no chapter list built.
C12_UnreadableRaises ==
    ~readable =>
        /\ pc \in {"open", "raised"}
        /\ handle = "none"
        /\ doc_structure = NoStructure
        /\ chapters = <<>>

\* the call on an unreadable file has raised
C12_Witness == ~readable /\ pc = "raised"

\* C13 as stated: when a call has finished, by returning or by raising, the
\* handle it opened is closed.
C13_HandleReleased == pc \in {"done", "raised"} => handle # "open"

\* the spans with text of a rounded size, the sizes observed, and the
\* characters of the spans of a size, all counted from the document
SpansOfSize(size) ==
    {i \in 1..Len(doc) :
        /\ doc[i].kind = "span"
        /\ SpanText(doc[i]) # <<>>
        /\ Round1(doc[i].size) = size}
SpanCount(size) == Cardinality(SpansOfSize(size))
ObservedSizes ==
    {Round1(doc[i].size) : i \in {j \in 1..Len(doc) :
                                     doc[j].kind = "span" /\ SpanText(doc[j]) # <<>>}}
CharCount(size) ==
    Cardinality(UNION {{<<i, k>> : k \in 1..Len(SpanText(doc[i]))} :
                          i \in SpansOfSize(size)})
Profiled == pc \in {"walk", "done"}

\* C14: the main_font_size of the profile is an observed rounded size whose
\* number of spans is maximal: no observed size has more spans.
C14_MainIsMostFrequent ==
    Profiled =>
        /\ doc_structure.main_font_size \in ObservedSizes
        /\ \A size \in ObservedSizes :
              SpanCount(size) <= SpanCount(doc_structure.main_font_size)

\* a profile whose main size has the most spans while another size has
\* more characters
C14_Witness ==
    /\ pc = "done"
    /\ \E size \in ObservedSizes :
          /\ SpanCount(size) < SpanCount(doc_structure.main_font_size)
          /\ CharCount(size) > CharCount(doc_structure.main_font_size)

IsAscending(seq) == \A j, k \in 1..Len(seq) : j < k => seq[j] < seq[k]

\* C15: header_font_sizes lists, in strictly ascending order, exactly the
\* observed sizes that are larger than main_font_size and have fewer than
\* half as many spans; a size with exactly half as many is not in it, nor
\* is main_font_size.
C15_HeaderSizes ==
    Profiled =>
        LET main == doc_structure.main_font_size
            sizes == doc_structure.header_font_sizes
        IN  /\ Elems(sizes) =
                  {size \in ObservedSizes :
                      size > main /\ 2 * SpanCount(size) < SpanCount(main)}
            /\ IsAscending(sizes)
            /\ main \notin Elems(sizes)
            /\ \A size \in ObservedSizes :
                  2 * SpanCount(size) = SpanCount(main) => size \notin Elems(sizes)

\* a profile with two header sizes, listed in the other order than they are
\* first seen in the document
C15_Witness ==
    /\ pc = "done"
    /\ Len(doc_structure.header_font_sizes) = 2
    /\ FirstSeen(doc, doc_structure.header_font_sizes[2])
           < FirstSeen(doc, doc_structure.header_font_sizes[1])

\* a profile that leaves out a larger size with exactly half as many spans
\* as the main size
C15_WitnessHalf ==
    /\ pc = "done"
    /\ \E size \in ObservedSizes :
          /\ size > doc_structure.main_font_size
          /\ 2 * SpanCount(size) = SpanCount(doc_structure.main_font_size)
          /\ size \notin Elems(doc_structure.header_font_sizes)

\* the spans with text whose size before rounding is within 0.04 pt of a
\* size in tenths of a point
SpansNear(tenths) ==
    {i \in 1..Len(doc) :
        /\ doc[i].kind = "span"
        /\ SpanText(doc[i]) # <<>>
        /\ doc[i].size \in (10 * tenths - 4)..(10 * tenths + 4)}

\* C16: of a document whose spans with text are 19 in 20 of sizes within
\* 0.04 pt of 10.0 and 1 in 20 of sizes within 0.04 pt of 18.0, the profile
\* counts all the former under the one size 10.0, has 10.0 as main_font_size
\* and 18.0 among header_font_sizes.
C16_RoundedGrouping ==
    (/\ Profiled
     /\ SpansNear(100) \cup SpansNear(180) = Counted(doc)
     /\ Cardinality(SpansNear(100)) = 19 * Cardinality(SpansNear(180)))
        => /\ ObservedSizes = {100, 180}
           /\ SpanCount(100) = Cardinality(SpansNear(100))
           /\ doc_structure.main_font_size = 100
           /\ 180 \in Elems(doc_structure.header_font_sizes)

\* the profile of 20 spans: 16 of size 10.00, two of 10.04, one of 9.96 and
\* one of 18.00
C16_Witness ==
    /\ pc = "done"
    /\ Cardinality(Counted(doc)) = 20
    /\ Cardinality({i \in Counted(doc) : doc[i].size = 1000}) = 16
    /\ Cardinality({i \in Counted(doc) : doc[i].size = 1004}) = 2
    /\ Cardinality({i \in Counted(doc) : doc[i].size = 996}) = 1
    /\ Cardinality({i \in Counted(doc) : doc[i].size = 1800}) = 1
    /\ doc_structure.main_font_size = 100
    /\ 180 \in Elems(doc_structure.header_font_sizes)

\* the spans the walk has classified as headers
Classified == Elems(header_log)

\* the spans the walk has passed whose size is a header size of the profile,
\* whose text is not empty after strip() and has at most 20 words
PassedGates ==
    {i \in 1..Len(doc) :
        /\ i < pos
        /\ doc[i].kind = "span"
        /\ Round1(doc[i].size) \in Elems(doc_structure.header_font_sizes)
        /\ Strip(doc[i].text) # <<>>
        /\ WordCount(Strip(doc[i].text)) <= 20}

\* C17: a span whose rounded size is not one of header_font_sizes, or whose
\* text is empty after strip(), or has more than 20 words, is never
\* classified as a header, whatever the five checks say of its text.
C17_Gates ==
    Profiled => Classified \subseteq PassedGates

\* the walk is over a document with a span of five checks out of five at a
\* size that is larger than the main size and is not a header size, a blank
\* span at a header size, and a span of 21 words and four checks at a header
\* size; none of the three is classified
C17_Witness ==
    /\ pc = "done"
    /\ \E i \in 1..Len(doc) :
          /\ doc[i].text = TextChapter1
          /\ Round1(doc[i].size) > doc_structure.main_font_size
          /\ Round1(doc[i].size) \notin Elems(doc_structure.header_font_sizes)
          /\ i \notin Classified
    /\ \E i \in 1..Len(doc) :
          /\ doc[i].kind = "span" /\ doc[i].text # <<>> /\ Strip(doc[i].text) = <<>>
          /\ Round1(doc[i].size) \in Elems(doc_structure.header_font_sizes)
          /\ i \notin Classified
    /\ \E i \in 1..Len(doc) :
          /\ doc[i].kind = "span"
          /\ WordCount(doc[i].text) = 21
          /\ IsUpper(doc[i].text[1]) /\ ~HasClausePunct(doc[i].text)
          /\ Elems(doc[i].text) \cap Digits # {}
          /\ Round1(doc[i].size) \in Elems(doc_structure.header_font_sizes)
          /\ i \notin Classified

\* the k-th of the five checks, of a text that is not empty
HeaderCheck(k, t) ==
    CASE k = 1 -> t[1] \in (65..90) \cup (1040..1071) \cup {1025}
      [] k = 2 -> Elems(t) \cap (48..57) # {}
      [] k = 3 -> t[Len(t)] # DOT
      [] k = 4 -> WordCount(t) <= 15
      [] k = 5 -> Elems(t) \cap {COMMA, COLON, SEMI} = {}

ChecksPassed(t) == Cardinality({k \in 1..5 : HeaderCheck(k, t)})

\* C18: a span that passes the three gates is classified as a header iff at
\* least 3 of the 5 checks hold of its text after strip(); "Chapter 1" at a
\* header size is classified, with 5 of 5, and "This is a long sentence, with
\* punctuation." at a header size is not.
C18_ThreeOfFive ==
    Profiled =>
        \A i \in PassedGates :
            /\ i \in Classified <=> ChecksPassed(Strip(doc[i].text)) >= 3
            /\ doc[i].text = TextChapter1 =>
                  ChecksPassed(doc[i].text) = 5 /\ i \in Classified
            /\ doc[i].text = TextSentence => i \notin Classified

\* the walk is over a document where, of the spans that pass the gates,
\* "Chapter 1" and a text of exactly three checks are classified, and the
\* sentence, with two checks, is not
C18_Witness ==
    /\ pc = "done"
    /\ \E i, j, k \in PassedGates :
          /\ doc[i].text = TextChapter1 /\ i \in Classified
          /\ ChecksPassed(Strip(doc[j].text)) = 3 /\ j \in Classified
          /\ doc[k].text = TextSentence /\ k \notin Classified
          /\ ChecksPassed(doc[k].text) = 2

\* C19 as stated: clean_text of a text that clean_text returned is that text.
C19_Idempotent ==
    Len(texts) >= 3 => texts[3] = texts[2]

\* a line that is a skip-section keyword and nothing else, but for case and
\* the whitespace around it
IsKeywordHeader(line) == Strip(Lower(line)) \in Elems(skip_sections)

\* C20 as stated: of a text with a line that is a skip-section keyword alone,
\* no line of the text clean_text returns contains, after lower() and
\* strip(), a skip-section keyword.
C20_NoKeywordLine ==
    (Len(texts) >= 2 /\ \E line \in Elems(SplitLines(texts[1])) : IsKeywordHeader(line))
        => \A line \in Elems(SplitLines(texts[2])) : ~IsSkipLine(line)

\* the step of the walk that takes the span at pos as a header
HeaderStep == pc = "walk" /\ header_log' = Append(header_log, pos)

\* the cleaned text of what is accumulated for the open chapter
OpenBody == clean_text(Join(Texts(current_chapter), NL))

\* C24: the step that takes a span as a header leaves the title of that span
\* open with an empty accumulator, whatever was open before; it appends the
\* chapter that was open iff that chapter had text of more than 1000
\* characters after clean_text, appends nothing else, and never appends a
\* chapter of the span it has just read.
C24_HeaderTransition ==
    [][HeaderStep =>
          /\ current_title' = [text |-> Strip(doc[pos].text), pos |-> pos]
          /\ current_chapter' = <<>>
          /\ IF /\ Truthy(current_title) /\ current_chapter # <<>>
                /\ Len(OpenBody) > 1000
             THEN /\ Len(chapters') = Len(chapters) + 1
                  /\ SubSeq(chapters', 1, Len(chapters)) = chapters
                  /\ chapters'[Len(chapters')].title = current_title.text
                  /\ chapters'[Len(chapters')].body = OpenBody
                  /\ chapters'[Len(chapters')].src = current_title.pos
                  /\ chapters'[Len(chapters')].src # pos
             ELSE chapters' = chapters]_vars

\* the walk has just taken a third header: the first was read with no
\* chapter open, the second right after the first or after a text that
\* clean_text leaves too short, the third after a text that was appended
\* as a chapter
C24_Witness ==
    /\ pc = "walk"
    /\ Len(header_log) >= 2
    /\ header_log[Len(header_log)] = pos - 1
    /\ current_chapter = <<>>
    /\ current_title.pos = pos - 1
    /\ chapters # <<>>
    /\ chapters[Len(chapters)].src = header_log[Len(header_log) - 1]
    /\ chapters[Len(chapters)].src < pos - 2

\* the text handed to the last call of clean_text, and its lines
LastInput == texts[Len(texts) - 1]
InputLines == SplitLines(LastInput)

\* a line whose lowercased, trimmed content contains a skip-section keyword
HasKeyword(line) ==
    \E k \in 1..Len(skip_sections) : Contains(Strip(Lower(line)), skip_sections[k])

\* a line that is blank or, after strip(), starts with "#"
EndsSkip(line) == Strip(line) = <<>> \/ Head(Strip(line)) = HASH

\* a line that is blank or has "#" as its first character
EndsSkipUntrimmed(line) == Strip(line) = <<>> \/ Head(line) = HASH

\* the lines the scanner keeps, ends being the lines that turn skip mode
\* off: those with no keyword that have no keyword line before them, or
\* have a line of ends after the last keyword line before them, up to
\* themselves
KeptLines(lines, ends) ==
    LET kw == {k \in 1..Len(lines) : HasKeyword(lines[k])}
    IN  {k \in (1..Len(lines)) \ kw :
            \A j \in kw :
                (j < k /\ kw \cap ((j + 1)..k) = {})
                    => ends \cap ((j + 1)..k) # {}}

\* the lines of KeptLines joined by "\n", in their order
KeptText(lines, ends) ==
    LET kept == Sorted(KeptLines(lines, ends))
    IN  Join([i \in 1..Len(kept) |-> lines[kept[i]]], NL)

\* C25 as stated: the text after step 1 of clean_text is the lines of the
\* input that the two-state scanner keeps, in their order: a line with a
\* keyword is dropped and turns skip mode on; in skip mode lines are dropped
\* up to the first line that is blank or starts with "#", which is kept and
\* turns skip mode off; out of skip mode a line with no keyword is kept.
C25_AsStated ==
    Len(texts) >= 2 =>
        LET lines == InputLines
        IN  stages[1] =
                KeptText(lines, {k \in 1..Len(lines) : EndsSkipUntrimmed(lines[k])})

\* C25, amended: the same, with skip mode turned off by the first line that
\* is blank or starts with "#" after the whitespace before it is removed.
C25_LineScanner ==
    Len(texts) >= 2 =>
        LET lines == InputLines
        IN  stages[1] = KeptText(lines, {k \in 1..Len(lines) : EndsSkip(lines[k])})

\* a call whose input has a keyword line, then a line that is dropped in
\* skip mode, then a line starting with "#" that is kept, and of which step
\* 1 keeps that last line alone
C25_Witness ==
    /\ Len(texts) = 2
    /\ Len(InputLines) = 3
    /\ HasKeyword(InputLines[1])
    /\ ~HasKeyword(InputLines[2]) /\ ~EndsSkip(InputLines[2])
    /\ ~HasKeyword(InputLines[3]) /\ Strip(InputLines[3]) = <<HASH>>
    /\ InputLines[3] # Strip(InputLines[3])
    /\ stages[1] = InputLines[3]

\* a line that is empty or has whitespace only
IsBlankLine(line) == Strip(line) = <<>>

\* the lines of a text that are not blank, in their order
NonBlankLines(text) ==
    LET lines == SplitLines(text)
        at == Sorted({k \in 1..Len(lines) : ~IsBlankLine(lines[k])})
    IN  [i \in 1..Len(at) |-> lines[at[i]]]

\* the number of blank lines between each line of a text that is not blank
\* and the next such line
BlankGaps(text) ==
    LET lines == SplitLines(text)
        at == Sorted({k \in 1..Len(lines) : ~IsBlankLine(lines[k])})
    IN  [i \in 1..(Len(at) - 1) |-> at[i + 1] - at[i] - 1]

\* no two lines in a row of the text are blank
NoBlankRun(text) ==
    LET lines == SplitLines(text)
    IN  \A k \in 1..(Len(lines) - 1) :
            ~(IsBlankLine(lines[k]) /\ IsBlankLine(lines[k + 1]))

\* C26: the blank-line step of clean_text leaves the lines that are not
\* blank as they are and leaves one blank line wherever there were one or
\* more between two of them, and the text clean_text returns has no two
\* blank lines in a row.
C26_BlankRunsCollapsed ==
    Len(texts) >= 2 =>
        /\ NonBlankLines(stages[3]) = NonBlankLines(stages[2])
        /\ \E before \in {BlankGaps(stages[2])} :
              BlankGaps(stages[3]) =
                  [i \in 1..Len(before) |-> IF before[i] >= 1 THEN 1 ELSE 0]
        /\ NoBlankRun(texts[Len(texts)])

\* a call that finds three blank lines in a row between two lines that are
\* not blank, and returns a text with one blank line between the two
C26_Witness ==
    /\ Len(texts) = 2
    /\ \E i \in 1..Len(BlankGaps(stages[2])) : BlankGaps(stages[2])[i] = 3
    /\ BlankGaps(texts[2]) = <<1>>
    /\ Len(SplitLines(texts[2])) = 3

\* a line of digits and whitespace only, with a digit
IsPageNumberLine(line) ==
    /\ \A i \in 1..Len(line) : IsDigit(line[i]) \/ IsSpace(line[i])
    /\ \E i \in 1..Len(line) : IsDigit(line[i])

\* C27 as stated: the text clean_text returns has no line of digits and
\* whitespace only that has a newline before it and a newline after it.
C27_NoPageNumberLine ==
    Len(texts) >= 2 =>
        \E lines \in {SplitLines(texts[2])} :
            \A k \in 2..(Len(lines) - 1) : ~IsPageNumberLine(lines[k])

\* the item at index i of the document is a span with no text after strip()
IsEmptySpan(i) == doc[i].kind = "span" /\ Strip(doc[i].text) = <<>>

\* the document without its spans that have no text after strip()
WithoutEmptySpans ==
    LET at == Sorted({i \in 1..Len(doc) : ~IsEmptySpan(i)})
    IN  [k \in 1..Len(at) |-> doc[at[k]]]

\* the accumulator of the open chapter holds empty lines only, and at least
\* one
OnlyEmptyLines ==
    /\ current_chapter # <<>>
    /\ \A k \in 1..Len(current_chapter) : current_chapter[k].text = <<>>

\* C28: the profile is that of the document without the spans that have no
\* text after strip(); the walk never takes such a span as a header and
\* appends it as an empty line to the accumulator iff a chapter is open; and
\* the close of a chapter whose accumulator holds such lines only runs the
\* filter: it appends no chapter, and after a header it leaves the
\* accumulator empty.
C28_EmptySpans ==
    /\ [](Profiled => doc_structure = analyze_document_structure(WithoutEmptySpans))
    /\ [][(pc = "walk" /\ pos <= Len(doc) /\ IsEmptySpan(pos)) =>
             /\ header_log' = header_log
             /\ current_title' = current_title
             /\ chapters' = chapters
             /\ current_chapter' =
                   IF Truthy(current_title)
                   THEN Append(current_chapter, [text |-> <<>>, pos |-> pos])
                   ELSE current_chapter]_vars
    /\ [][(pc = "walk" /\ OnlyEmptyLines /\ (HeaderStep \/ pc' = "done")) =>
             /\ chapters' = chapters
             /\ HeaderStep => current_chapter' = <<>>]_vars

\* the call has returned no chapter from a document with a span with no
\* text at a header size before the first header, which was not appended,
\* and one after the last header, which is all that the accumulator holds
C28_Witness ==
    /\ pc = "done"
    /\ chapters = <<>>
    /\ OnlyEmptyLines
    /\ current_chapter[1].pos = Len(doc)
    /\ \E i \in 1..(current_title.pos - 1) :
          /\ IsEmptySpan(i)
          /\ Round1(doc[i].size) \in Elems(doc_structure.header_font_sizes)

\* C29: clean_text is applied to the bodies only: a span with a skip-section
\* keyword in its text that passes the tests of is_potential_header is taken
\* as a header, the chapter of a header is returned iff clean_text leaves
\* its body more than 1000 characters, and the title of a returned chapter
\* is the text of its header span after strip(), with nothing removed.
C29_TitlesNotCleaned ==
    /\ Profiled =>
          \A i \in 1..(pos - 1) :
              (/\ doc[i].kind = "span"
               /\ HasKeyword(doc[i].text)
               /\ i \in PassedGates
               /\ ChecksPassed(Strip(doc[i].text)) >= 3) => i \in Classified
    /\ pc = "done" =>
          /\ \A h \in Classified :
                 (h \in Sources) <=> (Len(clean_text(SectionText(h))) > 1000)
          /\ \A k \in 1..Len(chapters) :
                 chapters[k].title = Strip(doc[chapters[k].src].text)

\* the call has returned a chapter under a title with a skip-section keyword
\* that clean_text would remove whole, and has dropped a section under a
\* title that clean_text would change because clean_text leaves its body too
\* short
C29_Witness ==
    /\ pc = "done"
    /\ \E k \in 1..Len(chapters) :
          /\ HasKeyword(chapters[k].title)
          /\ clean_text(chapters[k].title) = <<>>
    /\ \E h \in Classified :
          /\ h \notin Sources
          /\ clean_text(Strip(doc[h].text)) # Strip(doc[h].text)

\* the number of requests generate_mindmap has made
Requests == Len(slept)

\* the k-th request ended in an error whose message contains "rate_limit"
ErrorNamesRateLimit(k) ==
    /\ ~call.responses[k].ok
    /\ \E i \in 1..Len(call.responses[k].text) :
          HasAt(call.responses[k].text, i, LitRateLimit)

\* the k-th request ended in an error whose message contains "rate_limit"
\* in small or capital letters
ErrorNamesRateLimitAnyCase(k) ==
    /\ ~call.responses[k].ok
    /\ \E i \in 1..Len(call.responses[k].text) :
          HasAt([j \in 1..Len(call.responses[k].text) |->
                    LowerChar(call.responses[k].text[j])], i, LitRateLimit)

\* the retry policy, limited being the requests that count as ended in a
\* rate-limit error: at most 3 requests; a request is made only after
\* rate-limit errors, the first after 1 second and each next one after twice
\* the seconds of the one before; any other error is raised at once; three
\* rate-limit errors raise nothing, and the call returns "" and writes it to
\* the cache
RetryPolicy(limited) ==
    /\ Requests <= 3
    /\ \A k \in 1..Requests :
          /\ slept[k] = IF k = 1 THEN 1 ELSE 2 * slept[k - 1]
          /\ k < Requests => k \in limited
    /\ pc = "raised" <=>
          (Requests >= 1 /\ ~call.responses[Requests].ok /\ Requests \notin limited)
    /\ (Requests = 3 /\ limited = 1..3) =>
          /\ pc \in {"attempt", "combine", "returned"}
          /\ all_results = <<>>
          /\ pc = "returned" =>
                /\ result = <<>>
                /\ cache[call.text] = [present |-> TRUE, mindmap |-> <<>>]

\* C30 as stated: the retry policy of generate_mindmap, a rate-limit error
\* being one whose message contains "rate_limit".
C30_AsStated ==
    pc # "generate" =>
        RetryPolicy({k \in 1..Requests : ErrorNamesRateLimit(k)})

\* C30, amended: the retry policy of generate_mindmap, a rate-limit error
\* being one whose message contains "rate_limit" in small or capital
\* letters: at most 3 requests for a chunk, any other error raised at its
\* first occurrence, the delay doubled after each rate-limit error, and
\* after 3 rate-limit errors no exception, no result of the chunk, and the
\* empty combined result written to the cache and returned.
C30_RetryPolicy ==
    pc # "generate" =>
        RetryPolicy({k \in 1..Requests : ErrorNamesRateLimitAnyCase(k)})

\* the call has returned "" after three requests, made after 1, 2 and 4
\* seconds, that all ended in rate-limit errors, one of them with
\* "Rate_Limit" in its message, and "" is in the cache
C30_Witness ==
    /\ pc = "returned"
    /\ slept = <<1, 2, 4>>
    /\ \A k \in 1..3 : ErrorNamesRateLimitAnyCase(k)
    /\ \E k \in 1..3 : ~ErrorNamesRateLimit(k)
    /\ result = <<>>
    /\ cache[call.text].present /\ cache[call.text].mindmap = <<>>

\* the files written for a chapter, and "chapter_NN" for k <= 99, digit by digit
WrittenFiles == {f \in files : f.by > 0}
ExpectedStem(k) == LitChapter \o <<48 + (k \div 10), 48 + (k % 10)>>
ChapterText(k) == ChapterFileText(chapters[k].title, chapters[k].body)

\* C21: save_chapters_to_files writes one file per chapter of the list, the
\* k-th chapter to chapter_{k:02d}.txt: after k - 1 passes of its loop the
\* files written are k - 1 files, one for each of the chapters 1..k-1 with
\* the text of that chapter, and when it returns all chapters are written;
\* for a list of at most 99 chapters the file of chapter k is named
\* "chapter_", the two decimal digits of k, ".txt".
C21_OneFilePerChapter ==
    pc \in {"save", "saved"} =>
       /\ pc = "saved" => index = Len(chapters) + 1
       /\ Cardinality(WrittenFiles) = index - 1
       /\ \A k \in 1..(index - 1) :
             \E f \in files : f.by = k /\ f.data = WriteFile(ChapterText(k))
       /\ Len(chapters) <= 99 =>
             /\ \A f \in WrittenFiles : f.name = ExpectedStem(f.by) \o LitTxt
             /\ {f.name : f \in WrittenFiles}
                  = {ExpectedStem(k) \o LitTxt : k \in 1..(index - 1)}

\* 99 chapters are written, over the file that was there
C21_Witness ==
    /\ pc = "saved"
    /\ Len(chapters) = 99
    /\ Cardinality(files) = 99
    /\ \A f \in files : f.data # StaleFile.data

\* C22: a file written for a chapter reads as the line "Title: <title>", a
\* line of 50 "=", an empty line and then the body of the chapter, and the
\* title process_chapter reads in a chapter file is the title of the
\* chapter the file was written for.
C22_RoundTrip ==
    /\ \A f \in WrittenFiles :
          LET lines == SplitLines(ReadFile(f.data))
          IN  /\ Len(lines) >= 4
              /\ lines[1] = LitTitle \o chapters[f.by].title
              /\ lines[2] = Rep(EQUALS, separator_length)
              /\ lines[3] = <<>>
              /\ Join(SubSeq(lines, 4, Len(lines)), NL) = chapters[f.by].body
    /\ \A m \in mindmaps : m.title = chapters[m.by].title

\* C23: the mind map generated from chapter_NN.txt is the file
\* chapter_NN_mindmap.md, chapter_NN.txt being the file written for chapter
\* NN with the text of that chapter, and the mind map file the application
\* reads for chapter i is the file chapter_i_mindmap.md of the mind maps
\* directory, generated from the file of chapter i.
C23_OwnMindmap ==
    /\ \A m \in mindmaps :
          /\ m.by \in 1..Len(chapters)
          /\ m.from = ExpectedStem(m.by) \o LitTxt
          /\ m.name = ExpectedStem(m.by) \o LitMindmapMd
          /\ \E f \in files :
                f.name = m.from /\ f.by = m.by /\ f.data = WriteFile(ChapterText(m.by))
    /\ \A j \in 1..Len(attached) :
          /\ attached[j].file \in mindmaps
          /\ attached[j].file.by = attached[j].chapter
          /\ attached[j].file.name = ExpectedStem(attached[j].chapter) \o LitMindmapMd

\* three chapters with different titles; the mind map of chapter 1 failed in
\* the first pass and was generated in the second, those of chapters 2 and
\* 3 are attached
C23_Witness ==
    /\ pc = "done"
    /\ Len(chapters) = 3
    /\ chapters[1].title # chapters[2].title
    /\ chapters[2].title # chapters[3].title
    /\ Cardinality(mindmaps) = 3
    /\ Len(attached) = 2
    /\ attached[1].chapter = 2
    /\ attached[2].chapter = 3

====
